---- MODULE Spec2Model ----
(***************************************************************************)
(* Multi-strategy document parsing engine (backend/app/ai/parsing):        *)
(*   - OutputNormalizer           (output_normalizer.py)                   *)
(*   - StrategySelector           (strategy_selector.py)                   *)
(*   - BoundingBox/CoordinateMapper (utils/coordinate_mapper.py)           *)
(*   - ImageProcessor.create_tiles  (utils/image_processor.py)            *)
(*   - DocumentMetrics complexity   (base_strategy.py)                    *)
(*   - ClaudeTilingStrategy         (strategies/claude_tiling_strategy.py) *)
(*   - PDFAnalyzer                  (utils/pdf_analyzer.py)               *)
(*   - OpenAINativeStrategy         (strategies/openai_native_strategy.py)*)
(*   - ImageProcessor.calculate_tile_size (utils/image_processor.py)      *)
(* and the legacy PlanParser.parse_plan_with_claude (ai/plan_parser.py).   *)
(* Each component has its own specification over the shared variables;     *)
(* the variables of the components a specification does not exercise stay  *)
(* at their idle values.                                                   *)
(***************************************************************************)
EXTENDS Integers, Sequences, FiniteSets, TLC

VARIABLES
    \* ---- StrategySelector.parse_with_fallback ----
    avail,        \* strategies whose is_available() is true for this call
    metrics,      \* DocumentMetrics produced by the analyzer
    pc,           \* position inside parse_with_fallback
    chain,        \* list returned by analyze_and_select
    idx,          \* loop index i of "for i, strategy in enumerate(chain)" (1-based)
    errors,       \* the local list "errors"
    calls,        \* number of times each strategy's parse() was awaited
    running,      \* strategies whose parse() has been entered and not yet left
    outcomes,     \* log of what each awaited parse() produced, in call order
    result,       \* the ParseResult returned by parse_with_fallback
    \* ---- OutputNormalizer.normalize ----
    npc,          \* position of the normalizer harness
    raw,          \* raw payload handed to normalize
    norm1,        \* normalize(raw)
    norm2,        \* normalize(normalize(raw))
    \* ---- BoundingBox / CoordinateMapper ----
    bpc,          \* position of the geometry harness
    boxes,        \* input list of BoundingBox
    threshold,    \* iou_threshold as a rational <<num, den>>
    merged1,      \* merge_overlapping_boxes(boxes, t)
    merged2,      \* merge_overlapping_boxes(merged1, t)
    iou_ab,       \* a.intersection_over_union(b)
    iou_ba,       \* b.intersection_over_union(a)
    iou_args      \* the pair <<a, b>> the two values above were computed for

selVars  == <<avail, metrics, pc, chain, idx, errors, calls, running, outcomes, result>>
normVars == <<npc, raw, norm1, norm2>>
boxVars  == <<bpc, boxes, threshold, merged1, merged2, iou_ab, iou_ba, iou_args>>

VARIABLES
    \* ---- ImageProcessor.create_tiles ----
    tpc,          \* position of the tiling harness
    image_size,   \* image.size of the rendered page, <<width, height>>
    roi,          \* the roi argument: None or a BoundingBox
    tile_size,    \* the tile_size argument, <<tile_width, tile_height>>
    overlap,      \* overlap_percent in hundredths (10 is 0.1)
    tiles         \* the returned list of TileInfo

tileVars == <<tpc, image_size, roi, tile_size, overlap, tiles>>

VARIABLES
    \* ---- DocumentMetrics / OpenAINativeStrategy.can_handle ----
    mpc,          \* position of the metrics harness
    doc,          \* the fields a DocumentMetrics is constructed from
    doc2,         \* a second document, no smaller than doc in any field
    score,        \* doc's complexity_score in tenths
    score2,       \* doc2's complexity_score in tenths
    handles       \* OpenAINativeStrategy.can_handle(doc)

metVars == <<mpc, doc, doc2, score, score2, handles>>

VARIABLES
    \* ---- ClaudeTilingStrategy._deduplicate_items ----
    dpc,          \* position of the deduplication harness
    ditems,       \* the items argument
    dgroups,      \* the "matches" list of every seed, in output order
    deduped       \* the returned unique_items

dedupVars == <<dpc, ditems, dgroups, deduped>>

VARIABLES
    \* ---- ClaudeTilingStrategy.parse ----
    cpc,            \* position inside parse
    cmax_pages,     \* the max_pages argument
    max_concurrent, \* self.max_concurrent
    cpage,          \* page_num of the coarse scan loop
    coarse_log,     \* what happened on each scanned page, in scan order
    roi_list,       \* the ROI list built by _coarse_scan
    phases,         \* the phases entered so far, in order
    droi,           \* index into roi_list of the ROI the detail pass is at
    skip_page,      \* page whose "try" block raised: its other ROIs are skipped
    tstate,         \* per tile task of the current batch: "wait", "inflight", "done"
    tresp,          \* per tile: what the inference service answered
    tret,           \* per tile: what _process_tile_with_claude returned
    sem,            \* free permits of the batch's semaphore
    finished,       \* tile numbers of the batch in the order their calls completed
    tile_log,       \* the answers to all tiles of finished batches, in tile order
    all_results,    \* the list all_results of _detail_pass
    result_data,    \* the local result_data of parse
    cresult,        \* the ParseResult returned by parse
    caught,         \* phases in which an exception was handled inside the phase
    c_exc           \* the exception that reached the "except" of parse, or "none"

claudeVars ==
    <<cpc, cmax_pages, max_concurrent, cpage, coarse_log, roi_list, phases, droi,
      skip_page, tstate, tresp, tret, sem, finished, tile_log, all_results, result_data,
      cresult, caught, c_exc>>

VARIABLES
    \* ---- PDFAnalyzer.analyze, called by parse_with_fallback ----
    apc,          \* position inside analyze / parse_with_fallback
    afile,        \* what is found at pdf_path
    a_size,       \* the local file_size_mb
    a_pages,      \* the local page_count
    a_dpi,        \* the local average_dpi
    a_scanned,    \* the local is_scanned
    a_failed,     \* the introspection steps whose "try" block raised
    a_metrics,    \* the DocumentMetrics returned by analyze
    a_exc,        \* the exception raised by analyze, or "none"
    propagated    \* parse_with_fallback raised the analyzer's exception

anVars ==
    <<apc, afile, a_size, a_pages, a_dpi, a_scanned, a_failed, a_metrics, a_exc,
      propagated>>

VARIABLES
    \* ---- one unit of model output and the strategy call it belongs to ----
    opc,          \* position: the call is made, parse returned, the selector returned
    ounit,        \* the unit that receives the text
    otext,        \* response_text of that unit's inference call
    oresult,      \* the ParseResult of the strategy's parse
    ofinal        \* success of the ParseResult parse_with_fallback returns

outVars == <<opc, ounit, otext, oresult, ofinal>>

VARIABLES
    \* ---- ImageProcessor.calculate_tile_size ----
    zpc,            \* position of the tile-size harness
    image_width,    \* the image_width argument
    image_height,   \* the image_height argument
    target_size_bytes, \* the target_size_bytes argument
    tile_dims       \* what calculate_tile_size returned or raised

sizeVars == <<zpc, image_width, image_height, target_size_bytes, tile_dims>>

\* PlanParser.parse_plan_with_claude (legacy): position of the call, whether
\* self.anthropic is set, the max_pages argument, len(images), retry_count,
\* the outcome of every messages.create call made so far, the message the
\* loop left with, and the value the call returned
VARIABLES ppc, anthropic, plan_max_pages, n_images, retry_count, api_calls,
          message, plan_result

planVars ==
    <<ppc, anthropic, plan_max_pages, n_images, retry_count, api_calls,
      message, plan_result>>

coreVars == <<selVars, normVars, boxVars>>
extVars  == <<tileVars, metVars, dedupVars, claudeVars, anVars, outVars, sizeVars, planVars>>
notTileVars   == <<coreVars, metVars, dedupVars, claudeVars, anVars, outVars, sizeVars, planVars>>
notMetVars    == <<coreVars, tileVars, dedupVars, claudeVars, anVars, outVars, sizeVars, planVars>>
notDedupVars  == <<coreVars, tileVars, metVars, claudeVars, anVars, outVars, sizeVars, planVars>>
notClaudeVars == <<coreVars, tileVars, metVars, dedupVars, anVars, outVars, sizeVars, planVars>>
notAnVars     == <<coreVars, tileVars, metVars, dedupVars, claudeVars, outVars, sizeVars, planVars>>
notOutVars == <<coreVars, tileVars, metVars, dedupVars, claudeVars, anVars, sizeVars, planVars>>
notSizeVars == <<coreVars, tileVars, metVars, dedupVars, claudeVars, anVars, outVars, planVars>>
notPlanVars == <<coreVars, tileVars, metVars, dedupVars, claudeVars, anVars, outVars, sizeVars>>
vars     == <<selVars, normVars, boxVars, extVars>>

(***************************************************************************)
(* JSON / Python values.  Every value is a record tagged by t; the payload *)
(* field has a different name per tag.                                     *)
(***************************************************************************)
None == [t |-> "none"]

Num(n) == [t |-> "num", n |-> n]

Str(s) == [t |-> "str", s |-> s]

List(l) == [t |-> "list", l |-> l]

\* key universe of the inner dictionaries (bid item, specification, material, project_info)
AllKeys ==
    {"item_number", "number", "id", "description", "desc", "name",
     "quantity", "qty", "amount", "unit", "units", "uom",
     "unit_price", "price", "cost",
     "code", "spec_code", "specification", "title",
     "material", "spec",
     "project_name", "location", "site", "address", "bid_date", "date", "due_date"}

\* key universe of the top-level payload
TopKeys == {"bid_items", "specifications", "project_info", "materials", "raw_text"}

\* a dict with the keys of the record f present; k is the set of present keys
MkDict(f) ==
    [t |-> "dict", k |-> DOMAIN f,
     v |-> [key \in AllKeys |-> IF key \in DOMAIN f THEN f[key] ELSE None]]

MkTop(f) ==
    [t |-> "dict", k |-> DOMAIN f,
     v |-> [key \in TopKeys |-> IF key \in DOMAIN f THEN f[key] ELSE None]]

\* the empty dict {} (inner or top-level: it has no key either way)
EmptyDict == [t |-> "dict", k |-> {}, v |-> [key \in TopKeys |-> None]]

\* Python truthiness: None, 0, "", [] and {} are falsy
Truthy(v) ==
    CASE v.t = "none" -> FALSE
      [] v.t = "num"  -> v.n # 0
      [] v.t = "str"  -> v.s # <<>>
      [] v.t = "list" -> v.l # <<>>
      [] v.t = "dict" -> v.k # {}

\* d.get(key)
Get(d, key) == IF key \in d.k THEN d.v[key] ELSE None

\* d.get(key, default)
GetOr(d, key, default) == IF key \in d.k THEN d.v[key] ELSE default

\* a or b or c
Or3(a, b, c) == IF Truthy(a) THEN a ELSE IF Truthy(b) THEN b ELSE c

(***************************************************************************)
(* Strings are sequences of one-character strings.                         *)
(***************************************************************************)
Digits == <<"0", "1", "2", "3", "4", "5", "6", "7", "8", "9">>

IsDigit(c) == \E i \in 1..10 : Digits[i] = c

DigitVal(c) == (CHOOSE i \in 1..10 : Digits[i] = c) - 1

RECURSIVE LStrip(_)
LStrip(s) == IF s # <<>> /\ Head(s) = " " THEN LStrip(Tail(s)) ELSE s

RECURSIVE RStrip(_)
RStrip(s) == IF s # <<>> /\ s[Len(s)] = " " THEN RStrip(SubSeq(s, 1, Len(s) - 1)) ELSE s

\* str.strip()
Strip(s) == RStrip(LStrip(s))

\* s.replace(",", "").replace("$", "")
RemoveFormatting(s) == SelectSeq(s, LAMBDA c : c \notin {",", "$"})

RECURSIVE DigitsValue(_)
DigitsValue(s) == IF s = <<>> THEN 0 ELSE 10 * DigitsValue(SubSeq(s, 1, Len(s) - 1)) + DigitVal(s[Len(s)])

\* float(s): surrounding whitespace is accepted, anything but a digit string is a ValueError
PyFloat(s) ==
    LET u == Strip(s) IN
    IF u # <<>> /\ \A i \in 1..Len(u) : IsDigit(u[i])
    THEN [ok |-> TRUE, n |-> DigitsValue(u)]
    ELSE [ok |-> FALSE, n |-> 0]

RECURSIVE PyStr(_)
\* str(n) for a non-negative integer
PyStr(n) == IF n < 10 THEN <<Digits[n + 1]>> ELSE PyStr(n \div 10) \o <<Digits[(n % 10) + 1]>>

(***************************************************************************)
(* OutputNormalizer                                                        *)
(***************************************************************************)
\* _normalize_string: None for None, the trimmed string or None when it is empty
NormalizeString(value) ==
    CASE value.t = "none" -> None
      [] value.t = "str"  -> LET st == Strip(value.s) IN IF st # <<>> THEN Str(st) ELSE None
      [] value.t = "num"  -> LET st == Strip(PyStr(value.n)) IN IF st # <<>> THEN Str(st) ELSE None

\* _normalize_number: None for None, the number itself, a parsed string, else None
NormalizeNumber(value) ==
    CASE value.t = "none" -> None
      [] value.t = "num"  -> Num(value.n)
      [] value.t = "str"  ->
            LET cleaned == RemoveFormatting(Strip(value.s))
                f == PyFloat(cleaned)
            IN IF f.ok THEN Num(f.n) ELSE None
      [] OTHER -> None

\* "for x in v" raises TypeError when v is None or a number
NotIterable(v) == v.t \in {"none", "num"}

\* the dict elements the loop does not skip ("if not item or not isinstance(item, dict): continue");
\* iterating a str or a dict yields strings, all of which are skipped
DictElements(v) ==
    IF v.t = "list" THEN SelectSeq(v.l, LAMBDA it : it.t = "dict" /\ Truthy(it)) ELSE <<>>

NormalizeBidItem(item) ==
    MkDict([item_number |-> NormalizeString(Or3(Get(item, "item_number"), Get(item, "number"), Get(item, "id"))),
            description |-> NormalizeString(Or3(Get(item, "description"), Get(item, "desc"), Get(item, "name"))),
            quantity    |-> NormalizeNumber(Or3(Get(item, "quantity"), Get(item, "qty"), Get(item, "amount"))),
            unit        |-> NormalizeString(Or3(Get(item, "unit"), Get(item, "units"), Get(item, "uom"))),
            unit_price  |-> NormalizeNumber(Or3(Get(item, "unit_price"), Get(item, "price"), Get(item, "cost")))])

NormalizeBidItems(items) ==
    LET els == DictElements(items)
        normed == [i \in 1..Len(els) |-> NormalizeBidItem(els[i])]
    IN List(SelectSeq(normed, LAMBDA n : Truthy(n.v["item_number"]) \/ Truthy(n.v["description"])))

NormalizeSpecification(spec) ==
    MkDict([code        |-> NormalizeString(Or3(Get(spec, "code"), Get(spec, "spec_code"), Get(spec, "specification"))),
            description |-> NormalizeString(Or3(Get(spec, "description"), Get(spec, "desc"), Get(spec, "title")))])

NormalizeSpecifications(specs) ==
    LET els == DictElements(specs)
        normed == [i \in 1..Len(els) |-> NormalizeSpecification(els[i])]
    IN List(SelectSeq(normed, LAMBDA n : Truthy(n.v["code"])))

NormalizeProjectInfo(info0) ==
    LET info == IF ~Truthy(info0) \/ info0.t # "dict" THEN EmptyDict ELSE info0 IN
    MkDict([name     |-> NormalizeString(Or3(Get(info, "name"), Get(info, "project_name"), Get(info, "title"))),
            location |-> NormalizeString(Or3(Get(info, "location"), Get(info, "site"), Get(info, "address"))),
            bid_date |-> NormalizeString(Or3(Get(info, "bid_date"), Get(info, "date"), Get(info, "due_date")))])

NormalizeMaterial(material) ==
    MkDict([name          |-> NormalizeString(Or3(Get(material, "name"), Get(material, "material"), Get(material, "description"))),
            quantity      |-> NormalizeNumber(Or3(Get(material, "quantity"), Get(material, "qty"), Get(material, "amount"))),
            unit          |-> NormalizeString(Or3(Get(material, "unit"), Get(material, "units"), Get(material, "uom"))),
            specification |-> NormalizeString(Or3(Get(material, "specification"), Get(material, "spec"), Get(material, "spec_code")))])

NormalizeMaterials(materials) ==
    LET els == DictElements(materials)
        normed == [i \in 1..Len(els) |-> NormalizeMaterial(els[i])]
    IN List(SelectSeq(normed, LAMBDA n : Truthy(n.v["name"])))

\* _empty_schema()
EmptySchema ==
    MkTop([bid_items      |-> List(<<>>),
           specifications |-> List(<<>>),
           project_info   |-> MkDict([name |-> None, location |-> None, bid_date |-> None]),
           materials      |-> List(<<>>)])

\* the outcome of a normalize call that raised (TypeError / AttributeError)
Raised == [t |-> "raised"]

\* OutputNormalizer.normalize
Normalize(data) ==
    IF ~Truthy(data) THEN EmptySchema
    ELSE IF data.t # "dict" THEN Raised
    ELSE LET bi == GetOr(data, "bid_items", List(<<>>))
             sp == GetOr(data, "specifications", List(<<>>))
             pi == GetOr(data, "project_info", EmptyDict)
             ma == GetOr(data, "materials", List(<<>>))
         IN IF NotIterable(bi) \/ NotIterable(sp) \/ NotIterable(ma) THEN Raised
            ELSE IF "raw_text" \in data.k
                 THEN MkTop([bid_items      |-> NormalizeBidItems(bi),
                             specifications |-> NormalizeSpecifications(sp),
                             project_info   |-> NormalizeProjectInfo(pi),
                             materials      |-> NormalizeMaterials(ma),
                             raw_text       |-> data.v["raw_text"]])
                 ELSE MkTop([bid_items      |-> NormalizeBidItems(bi),
                             specifications |-> NormalizeSpecifications(sp),
                             project_info   |-> NormalizeProjectInfo(pi),
                             materials      |-> NormalizeMaterials(ma)])

(***************************************************************************)
(* Strategies                                                              *)
(***************************************************************************)
\* self.strategies, in construction order
Strategies == <<"openai_native", "claude_tiling", "tesseract_ocr">>

StrategySet == {Strategies[i] : i \in 1..Len(Strategies)}

OPENAI_PRIORITY == 1

CLAUDE_PRIORITY == 3

OCR_PRIORITY == 4

get_priority(s) ==
    CASE s = "openai_native" -> OPENAI_PRIORITY
      [] s = "claude_tiling" -> CLAUDE_PRIORITY
      [] s = "tesseract_ocr" -> OCR_PRIORITY

OPENAI_MAX_SIZE_MB == 50

OPENAI_MAX_PAGES == 10

OPENAI_MAX_DPI == 300

can_handle_SizeInclusive(s, m) ==
    CASE s = "openai_native" ->
            /\ ~(m.file_size_mb > OPENAI_MAX_SIZE_MB)
            /\ ~(m.page_count > OPENAI_MAX_PAGES)
            /\ ~(Truthy(m.average_dpi) /\ m.average_dpi.n >= OPENAI_MAX_DPI)
      [] s = "claude_tiling" -> TRUE
      [] s = "tesseract_ocr" -> TRUE

\* can_handle(metrics); average_dpi is None or Num(dpi)
can_handle(s, m) ==
    CASE s = "openai_native" ->
            /\ ~(m.file_size_mb >= OPENAI_MAX_SIZE_MB)
            /\ ~(m.page_count > OPENAI_MAX_PAGES)
            /\ ~(Truthy(m.average_dpi) /\ m.average_dpi.n >= OPENAI_MAX_DPI)
      [] s = "claude_tiling" -> TRUE
      [] s = "tesseract_ocr" -> TRUE

\* the documents the analyzer may report on: below and above each ceiling of can_handle
FileSizesMb == {3, 60}

PageCounts == {2, 12}

DpiValues == {None, Num(150), Num(300)}

MetricsSet ==
    [file_size_mb : FileSizesMb, page_count : PageCounts,
     average_dpi : DpiValues, is_scanned : BOOLEAN]

\* insert x into the list s sorted by priority, after the elements of equal priority
RECURSIVE InsertByPriority(_, _)
InsertByPriority(x, s) ==
    IF s = <<>> THEN <<x>>
    ELSE IF get_priority(Head(s)) <= get_priority(x)
         THEN <<Head(s)>> \o InsertByPriority(x, Tail(s))
         ELSE <<x>> \o s

RECURSIVE SortedByPriority(_)
\* sorted(capable, key=lambda s: s.get_priority()), a stable sort
SortedByPriority(s) ==
    IF s = <<>> THEN <<>>
    ELSE InsertByPriority(s[Len(s)], SortedByPriority(SubSeq(s, 1, Len(s) - 1)))

\* a plausible slip: the two partitions concatenated the wrong way round
ForceOcrLast_OcrFirst(c) ==
    SelectSeq(c, LAMBDA s : get_priority(s) = OCR_PRIORITY)
        \o SelectSeq(c, LAMBDA s : get_priority(s) # OCR_PRIORITY)

\* chain = non_ocr + ocr_strategies
ForceOcrLast(c) ==
    SelectSeq(c, LAMBDA s : get_priority(s) # OCR_PRIORITY)
        \o SelectSeq(c, LAMBDA s : get_priority(s) = OCR_PRIORITY)

analyze_and_select_NoFallback(av, m) ==
    LET available == SelectSeq(Strategies, LAMBDA s : s \in av)
        capable   == SelectSeq(available, LAMBDA s : can_handle(s, m))
    IN IF available = <<>> THEN <<>>
       ELSE ForceOcrLast(SortedByPriority(capable))

\* StrategySelector.analyze_and_select, av = the strategies whose is_available() holds
analyze_and_select(av, m) ==
    LET available == SelectSeq(Strategies, LAMBDA s : s \in av)
        capable0  == SelectSeq(available, LAMBDA s : can_handle(s, m))
        capable   == IF capable0 = <<>> THEN available ELSE capable0
    IN IF available = <<>> THEN <<>>
       ELSE ForceOcrLast(SortedByPriority(capable))

(***************************************************************************)
(* What a strategy's parse() can hand back to the selector                 *)
(***************************************************************************)
OneBidItem ==
    MkDict([item_number |-> Str(<<"1">>), description |-> Str(<<"a">>),
            quantity |-> Num(5), unit |-> Str(<<"a">>)])

\* the model answered with every key of the prompt's JSON format
WellFormedData ==
    MkTop([bid_items      |-> List(<<OneBidItem>>),
           specifications |-> List(<<>>),
           project_info   |-> MkDict([name |-> Str(<<"a">>), location |-> None, bid_date |-> None]),
           materials      |-> List(<<>>)])

\* the model answered with some keys only
PartialData == MkTop([bid_items |-> List(<<OneBidItem>>)])

\* the model used null where the prompt allows "null or empty arrays"
NullListData ==
    MkTop([bid_items      |-> None,
           specifications |-> List(<<>>),
           project_info   |-> MkDict([name |-> Str(<<"a">>), location |-> None, bid_date |-> None]),
           materials      |-> List(<<>>)])

\* TesseractOCRStrategy._extract_basic_structure
OcrData ==
    MkTop([bid_items      |-> List(<<MkDict([item_number |-> None, description |-> Str(<<"1", " ", "a">>),
                                             quantity |-> None, unit |-> None])>>),
           specifications |-> List(<<>>),
           project_info   |-> MkDict([name |-> None, location |-> None, bid_date |-> None]),
           materials      |-> List(<<>>),
           raw_text       |-> Str(<<"1", " ", "a">>)])

\* the data of a ParseResult(success=True) each strategy can produce:
\* OpenAI raises on a falsy payload, Claude's full-page fallback returns "data or {}",
\* Tesseract always builds its own structure
SuccessData(s) ==
    CASE s = "openai_native" -> {WellFormedData, PartialData, NullListData}
      [] s = "claude_tiling" -> {WellFormedData, PartialData, NullListData, EmptyDict}
      [] s = "tesseract_ocr" -> {OcrData}

\* str(e) of the exception a strategy caught or let escape
FailureReasons == {"e1", "e2"}

\* str(e) of the TypeError raised by the normalizer's "for item in items"
NotIterableReason == "not iterable"

\* ParseResult(success, data, error, strategy_used); the other fields do not steer control
ParseResult(success, data, error, strategy_used) ==
    [success |-> success, data |-> data, error |-> error, strategy_used |-> strategy_used]

\* the error of the result returned for an empty chain
NoStrategiesError == [prefix |-> "No parsing strategies available", parts |-> <<>>]

\* a plausible slip: only the last failure is reported
AllFailedError_LastOnly(errs) ==
    [prefix |-> "All parsing strategies failed. ", parts |-> SubSeq(errs, Len(errs), Len(errs))]

\* "All parsing strategies failed. " + "; ".join(errors)
AllFailedError(errs) == [prefix |-> "All parsing strategies failed. ", parts |-> errs]

ErrorMsg_AlwaysFailed(s, kind, reason) == [strategy |-> s, kind |-> "failed", reason |-> reason]

\* f"{strategy_name} failed: {result.error}" / f"{strategy_name} exception: {str(e)}"
ErrorMsg(s, kind, reason) == [strategy |-> s, kind |-> kind, reason |-> reason]

\* a plausible slip: the loop does not advance after a failure
NextIndex_Retry(i) == i

\* the for loop advances to the next element of the chain
NextIndex(i) == i + 1

NoResult == [t |-> "none"]

(***************************************************************************)
(* Idle values of each component                                           *)
(***************************************************************************)
SelIdle ==
    /\ avail = {} /\ metrics = None /\ pc = "off" /\ chain = <<>> /\ idx = 0
    /\ errors = <<>> /\ calls = [s \in StrategySet |-> 0] /\ running = {}
    /\ outcomes = <<>> /\ result = NoResult

NormIdle == npc = "off" /\ raw = None /\ norm1 = None /\ norm2 = None

BoxIdle ==
    /\ bpc = "off" /\ boxes = <<>> /\ threshold = <<0, 1>> /\ merged1 = <<>> /\ merged2 = <<>>
    /\ iou_ab = <<0, 1>> /\ iou_ba = <<0, 1>> /\ iou_args = <<>>

TileIdle ==
    /\ tpc = "off" /\ image_size = <<0, 0>> /\ roi = None /\ tile_size = <<0, 0>>
    /\ overlap = 0 /\ tiles = <<>>

MetIdle ==
    /\ mpc = "off" /\ doc = None /\ doc2 = None /\ score = 0 /\ score2 = 0
    /\ handles = FALSE

DedupIdle == dpc = "off" /\ ditems = <<>> /\ dgroups = <<>> /\ deduped = <<>>

ClaudeIdle ==
    /\ cpc = "off" /\ cmax_pages = 0 /\ max_concurrent = 0 /\ cpage = 0
    /\ coarse_log = <<>> /\ roi_list = <<>> /\ phases = <<>> /\ droi = 0
    /\ skip_page = 0 /\ tstate = <<>> /\ tresp = <<>> /\ tret = <<>> /\ sem = 0
    /\ finished = <<>>
    /\ tile_log = <<>> /\ all_results = <<>> /\ result_data = None
    /\ cresult = NoResult /\ caught = {} /\ c_exc = "none"

AnIdle ==
    /\ apc = "off" /\ afile = "none" /\ a_size = 0 /\ a_pages = 0 /\ a_dpi = None
    /\ a_scanned = FALSE /\ a_failed = {} /\ a_metrics = None /\ a_exc = "none"
    /\ propagated = FALSE

OutIdle ==
    /\ opc = "off" /\ ounit = "none" /\ otext = NoResult /\ oresult = NoResult
    /\ ofinal = FALSE

SizeIdle ==
    /\ zpc = "off" /\ image_width = 0 /\ image_height = 0 /\ target_size_bytes = 0
    /\ tile_dims = NoResult

PlanIdle ==
    /\ ppc = "off" /\ anthropic = FALSE /\ plan_max_pages = 0 /\ n_images = 0
    /\ retry_count = 0 /\ api_calls = <<>> /\ message = NoResult
    /\ plan_result = NoResult

\* every component added after the first three is idle, except component c
ExtIdleBut(c) ==
    /\ IF c = "tile" THEN TRUE ELSE TileIdle
    /\ IF c = "met" THEN TRUE ELSE MetIdle
    /\ IF c = "dedup" THEN TRUE ELSE DedupIdle
    /\ IF c = "claude" THEN TRUE ELSE ClaudeIdle
    /\ IF c = "analyzer" THEN TRUE ELSE AnIdle
    /\ IF c = "output" THEN TRUE ELSE OutIdle
    /\ IF c = "tilesize" THEN TRUE ELSE SizeIdle
    /\ IF c = "plan" THEN TRUE ELSE PlanIdle

ExtIdle == ExtIdleBut("none")

(***************************************************************************)
(* StrategySelector.parse_with_fallback                                    *)
(***************************************************************************)
\* the call starts: the analyzer has produced metrics, availability is what the
\* configuration and environment make it
SelInit ==
    /\ avail \in SUBSET StrategySet
    /\ metrics \in MetricsSet
    /\ pc = "analyze"
    /\ chain = <<>>
    /\ idx = 0
    /\ errors = <<>>
    /\ calls = [s \in StrategySet |-> 0]
    /\ running = {}
    /\ outcomes = <<>>
    /\ result = NoResult

\* Step 2: chain = await self.analyze_and_select(pdf_path, metrics); empty chain returns at once
BuildChain ==
    /\ pc = "analyze"
    /\ chain' = analyze_and_select(avail, metrics)
    /\ IF chain' = <<>>
       THEN /\ result' = ParseResult(FALSE, None, NoStrategiesError, "none")
            /\ pc' = "done"
            /\ idx' = idx
       ELSE /\ result' = result
            /\ pc' = "loop"
            /\ idx' = 1
    /\ errors' = <<>>
    /\ UNCHANGED <<avail, metrics, calls, running, outcomes>>
    /\ UNCHANGED <<normVars, boxVars, extVars>>

\* result = await strategy.parse(pdf_path, max_pages): the call is entered
AttemptStrategy ==
    /\ pc = "loop"
    /\ idx <= Len(chain)
    /\ calls' = [calls EXCEPT ![chain[idx]] = @ + 1]
    /\ running' = running \cup {chain[idx]}
    /\ pc' = "parsing"
    /\ UNCHANGED <<avail, metrics, chain, idx, errors, outcomes, result>>
    /\ UNCHANGED <<normVars, boxVars, extVars>>

\* parse() returns ParseResult(success=True, data=d): normalize when the data is truthy
\* and return; an exception of the normalizer lands in the except branch of the loop body
StrategySucceeds ==
    /\ pc = "parsing"
    /\ \E d \in SuccessData(chain[idx]) :
        LET s == chain[idx]
            normalized == IF Truthy(d) THEN Normalize(d) ELSE d
        IN /\ outcomes' = Append(outcomes, [strategy |-> s, kind |-> "success", reason |-> "", data |-> d])
           /\ running' = running \ {s}
           /\ IF normalized = Raised
              THEN /\ errors' = Append(errors, ErrorMsg(s, "exception", NotIterableReason))
                   /\ idx' = NextIndex(idx)
                   /\ pc' = "loop"
                   /\ result' = result
              ELSE /\ result' = ParseResult(TRUE, normalized, None, s)
                   /\ pc' = "done"
                   /\ UNCHANGED <<errors, idx>>
    /\ UNCHANGED <<avail, metrics, chain, calls>>
    /\ UNCHANGED <<normVars, boxVars, extVars>>

\* parse() returns ParseResult(success=False, error=reason)
StrategyFails ==
    /\ pc = "parsing"
    /\ \E reason \in FailureReasons :
        LET s == chain[idx]
        IN /\ outcomes' = Append(outcomes, [strategy |-> s, kind |-> "failed", reason |-> reason, data |-> None])
           /\ running' = running \ {s}
           /\ errors' = Append(errors, ErrorMsg(s, "failed", reason))
    /\ idx' = NextIndex(idx)
    /\ pc' = "loop"
    /\ UNCHANGED <<avail, metrics, chain, calls, result>>
    /\ UNCHANGED <<normVars, boxVars, extVars>>

\* parse() raises: except Exception as e
StrategyRaises ==
    /\ pc = "parsing"
    /\ \E reason \in FailureReasons :
        LET s == chain[idx]
        IN /\ outcomes' = Append(outcomes, [strategy |-> s, kind |-> "raised", reason |-> reason, data |-> None])
           /\ running' = running \ {s}
           /\ errors' = Append(errors, ErrorMsg(s, "exception", reason))
    /\ idx' = NextIndex(idx)
    /\ pc' = "loop"
    /\ UNCHANGED <<avail, metrics, chain, calls, result>>
    /\ UNCHANGED <<normVars, boxVars, extVars>>

\* the loop is exhausted: "All strategies failed"
AllFailed ==
    /\ pc = "loop"
    /\ idx > Len(chain)
    /\ result' = ParseResult(FALSE, None, AllFailedError(errors), "none")
    /\ pc' = "done"
    /\ UNCHANGED <<avail, metrics, chain, idx, errors, calls, running, outcomes>>
    /\ UNCHANGED <<normVars, boxVars, extVars>>

Init == SelInit /\ NormIdle /\ BoxIdle /\ ExtIdle

Next ==
    \/ BuildChain
    \/ AttemptStrategy
    \/ StrategySucceeds
    \/ StrategyFails
    \/ StrategyRaises
    \/ AllFailed

Spec == Init /\ [][Next]_vars

(***************************************************************************)
(* Properties of parse_with_fallback and analyze_and_select                *)
(***************************************************************************)
Failed(o) == o.kind \in {"failed", "raised"}

\* C1: once a strategy of the chain has returned a ParseResult with success=True, no
\* strategy later in the chain is invoked, and the result parse_with_fallback returns
\* is that strategy's result.
C1_FirstSuccessStopsChain ==
    \A i \in 1..Len(outcomes) :
        outcomes[i].kind = "success" =>
            /\ \A j \in (i + 1)..Len(chain) : calls[chain[j]] = 0
            /\ pc = "done" => (result.success /\ result.strategy_used = outcomes[i].strategy)

\* every strategy of a non-empty chain returned success=False or raised
AllStrategiesFailed ==
    /\ chain # <<>>
    /\ Len(outcomes) = Len(chain)
    /\ \A i \in 1..Len(outcomes) : Failed(outcomes[i])

\* C2: if every strategy of the chain fails (returns success=False or raises), the
\* returned ParseResult has success=False and its error contains the failure reason
\* of every strategy of the chain.
C2_AllFailAggregatesErrors ==
    (pc = "done" /\ AllStrategiesFailed) =>
        /\ result.success = FALSE
        /\ \A i \in 1..Len(outcomes) :
              \E j \in 1..Len(result.error.parts) :
                  /\ result.error.parts[j].strategy = outcomes[i].strategy
                  /\ result.error.parts[j].reason = outcomes[i].reason

\* a three-strategy chain failed with two different reasons
C2_Witness ==
    /\ pc = "done"
    /\ AllStrategiesFailed
    /\ Len(chain) = 3
    /\ outcomes[1].reason # outcomes[2].reason
    /\ \E i \in 1..3 : outcomes[i].kind = "raised"
    /\ \E i \in 1..3 : outcomes[i].kind = "failed"

RequiredKeys == {"bid_items", "specifications", "project_info", "materials"}

\* C3: every returned ParseResult satisfies: success=False implies data is None and
\* error is set; success=True implies data holds the four keys of the normalized schema.
C3_ParseResultInvariant ==
    pc = "done" =>
        /\ result.success = FALSE => (result.data = None /\ result.error # None)
        /\ result.success = TRUE => (result.data.t = "dict" /\ RequiredKeys \subseteq result.data.k)

\* C4: whenever the OCR-rank strategy (priority 4) is in the chain built by
\* analyze_and_select, it is the last element of the chain.
C4_OcrLast ==
    pc # "analyze" =>
        \A i \in 1..Len(chain) : get_priority(chain[i]) = OCR_PRIORITY => i = Len(chain)

\* a chain of all three strategies was built, with the OCR strategy at its end
C4_Witness ==
    /\ pc # "analyze"
    /\ Len(chain) = 3
    /\ chain[3] = "tesseract_ocr"

\* C5: within one call each strategy's parse is invoked at most once: the chain holds
\* no strategy twice and a failed strategy is not retried.
C5_AtMostOnce ==
    /\ \A s \in StrategySet : calls[s] <= 1
    /\ \A i, j \in 1..Len(chain) : chain[i] = chain[j] => i = j

\* a strategy failed and a later one was invoked after it
C5_Witness ==
    /\ Len(outcomes) >= 2
    /\ Failed(outcomes[1])
    /\ calls[chain[1]] = 1
    /\ calls[chain[2]] = 1

\* C6: strategies run strictly sequentially in chain order: at most one parse is in
\* progress, the parse of strategy k+1 is in progress only after every earlier strategy
\* finished by returning success=False or raising, and after such a failure of a
\* non-last strategy the next strategy is attempted (the call does not end there).
C6_StrictlySequential ==
    /\ Cardinality(running) <= 1
    /\ \A k \in 1..Len(chain) :
          chain[k] \in running =>
              /\ Len(outcomes) = k - 1
              /\ \A i \in 1..(k - 1) : outcomes[i].strategy = chain[i] /\ Failed(outcomes[i])
    /\ (outcomes # <<>> /\ Failed(outcomes[Len(outcomes)]) /\ Len(outcomes) < Len(chain)) =>
          /\ pc \in {"loop", "parsing"}
          /\ idx = Len(outcomes) + 1

\* the available strategies whose can_handle accepts the document
CapableSet == {s \in avail : can_handle(s, metrics)}

\* C23: analyze_and_select returns exactly the strategies that are available
\* and can_handle the metrics, or all available strategies when none of the
\* available ones can handle the document, ordered by ascending priority with
\* no duplicates; the chain is empty if and only if no strategy is available,
\* and an unavailable strategy is never in the chain.
C23_ChainExact ==
    pc # "analyze" =>
        /\ {chain[i] : i \in 1..Len(chain)} =
              IF CapableSet = {} THEN avail ELSE CapableSet
        /\ \A i, j \in 1..Len(chain) :
              i < j => get_priority(chain[i]) < get_priority(chain[j])
        /\ \A i, j \in 1..Len(chain) : chain[i] = chain[j] => i = j
        /\ chain = <<>> <=> avail = {}
        /\ \A i \in 1..Len(chain) : chain[i] \in avail

\* the only available strategy rejects the document and is used all the same
C23_Witness ==
    /\ pc # "analyze"
    /\ avail = {"openai_native"}
    /\ CapableSet = {}
    /\ chain = <<"openai_native">>

\* the i-th parse returned success=true with data the normalizer raises on
NormalizeRaisedOn(i) ==
    /\ outcomes[i].kind = "success"
    /\ Truthy(outcomes[i].data)
    /\ Normalize(outcomes[i].data) = Raised

Absent == [t |-> "absent"]

\* largest number of bid items of a raw payload
MaxItems == 1

\* a raw dict built from the record f, without the keys mapped to Absent
RawDict(f) ==
    [t |-> "dict", k |-> {key \in DOMAIN f : f[key] # Absent},
     v |-> [key \in AllKeys |-> IF key \in DOMAIN f /\ f[key] # Absent THEN f[key] ELSE None]]

RawTop(f) ==
    [t |-> "dict", k |-> {key \in DOMAIN f : f[key] # Absent},
     v |-> [key \in TopKeys |-> IF key \in DOMAIN f /\ f[key] # Absent THEN f[key] ELSE None]]

\* quantities as a model may write them: missing, null, numbers, plain and
\* currency-formatted strings, unparseable strings
RawQuantities ==
    {Absent, None, Num(0), Num(5),
     Str(<<"0">>), Str(<<"$", "0">>), Str(<<"5">>), Str(<<"$", " ", "5">>),
     Str(<<"1", ",", "0">>), Str(<<>>), Str(<<"a">>)}

RawItems ==
    {RawDict([item_number |-> inum, number |-> num, description |-> desc, quantity |-> q, qty |-> q2]) :
        inum \in {Absent, Str(<<"1">>)},
        num  \in {Absent, Num(7)},
        desc \in {Absent, Str(<<" ", "a", " ">>)},
        q    \in RawQuantities,
        q2   \in {Absent, Str(<<"5">>)}}

RawBidItems ==
    {Absent, None, List(<<>>)} \cup
    {List(l) : l \in UNION {[1..n -> RawItems] : n \in 1..MaxItems}}

RawMaterials ==
    {Absent,
     List(<<RawDict([material |-> Str(<<"a">>), qty |-> Str(<<"0">>), spec |-> Num(5)])>>)}

RawProjectInfo == {Absent, RawDict([project_name |-> Str(<<"a", " ">>), date |-> Num(0)])}

RawPayloads ==
    {EmptyDict} \cup
    {RawTop([bid_items |-> bi, project_info |-> pi, materials |-> ma, raw_text |-> rt]) :
        bi \in RawBidItems, pi \in RawProjectInfo, ma \in RawMaterials,
        rt \in {Absent, Str(<<"1", " ", "a">>)}}

NormInit == npc = "start" /\ raw \in RawPayloads /\ norm1 = None /\ norm2 = None

\* n1 = OutputNormalizer.normalize(raw)
NormalizeOnce ==
    /\ npc = "start"
    /\ norm1' = Normalize(raw)
    /\ npc' = "once"
    /\ UNCHANGED <<raw, norm2>>
    /\ UNCHANGED <<selVars, boxVars, extVars>>

\* n2 = OutputNormalizer.normalize(n1), when the first call returned
NormalizeTwice ==
    /\ npc = "once"
    /\ norm1 # Raised
    /\ norm2' = Normalize(norm1)
    /\ npc' = "twice"
    /\ UNCHANGED <<raw, norm1>>
    /\ UNCHANGED <<selVars, boxVars, extVars>>

InitNorm == SelIdle /\ NormInit /\ BoxIdle /\ ExtIdle

NextNorm == NormalizeOnce \/ NormalizeTwice

SpecNorm == InitNorm /\ [][NextNorm]_vars

\* C7: normalize is idempotent: normalize(normalize(x)) = normalize(x) for every raw
\* payload x, numeric fields that are zero or strings such as "0" or "$0" included.
C7_NormalizeIdempotent == npc = "twice" => norm2 = norm1

(***************************************************************************)
(* BoundingBox and CoordinateMapper.  Floats that are quotients of integers *)
(* (IoU, confidence) are exact rationals <<numerator, denominator>> in      *)
(* lowest terms.                                                           *)
(***************************************************************************)
RECURSIVE Gcd(_, _)
Gcd(a, b) == IF b = 0 THEN a ELSE Gcd(b, a % b)

\* n / d for n >= 0, d > 0
Rat(n, d) == LET g == Gcd(n, d) IN <<n \div g, d \div g>>

RatZero == <<0, 1>>

RatOne == <<1, 1>>

\* p >= q
RatGeq(p, q) == p[1] * q[2] >= q[1] * p[2]

\* p + q
RatAdd(p, q) == Rat(p[1] * q[2] + q[1] * p[2], p[2] * q[2])

Max(a, b) == IF a >= b THEN a ELSE b

Min(a, b) == IF a <= b THEN a ELSE b

\* the BoundingBox dataclass
BoundingBox(x, y, width, height, page_number, confidence, label) ==
    [x |-> x, y |-> y, width |-> width, height |-> height,
     page_number |-> page_number, confidence |-> confidence, label |-> label]

\* BoundingBox.area
area(b) == b.width * b.height

\* a plausible slip: the intersection is not subtracted from the union
intersection_over_union_NoSubtract(self, other) ==
    IF self.page_number # other.page_number THEN RatZero
    ELSE LET x1 == Max(self.x, other.x)
             y1 == Max(self.y, other.y)
             x2 == Min(self.x + self.width, other.x + other.width)
             y2 == Min(self.y + self.height, other.y + other.height)
             intersection == (x2 - x1) * (y2 - y1)
             union == area(self) + area(other)
         IN IF x2 < x1 \/ y2 < y1 THEN RatZero
            ELSE IF union > 0 THEN Rat(intersection, union) ELSE RatZero

\* a plausible slip: the union counts the receiver's area twice
intersection_over_union_SelfArea(self, other) ==
    IF self.page_number # other.page_number THEN RatZero
    ELSE LET x1 == Max(self.x, other.x)
             y1 == Max(self.y, other.y)
             x2 == Min(self.x + self.width, other.x + other.width)
             y2 == Min(self.y + self.height, other.y + other.height)
             intersection == (x2 - x1) * (y2 - y1)
             union == area(self) + area(self) - intersection
         IN IF x2 < x1 \/ y2 < y1 THEN RatZero
            ELSE IF union > 0 THEN Rat(intersection, union) ELSE RatZero

\* BoundingBox.intersection_over_union
intersection_over_union(self, other) ==
    IF self.page_number # other.page_number THEN RatZero
    ELSE LET x1 == Max(self.x, other.x)
             y1 == Max(self.y, other.y)
             x2 == Min(self.x + self.width, other.x + other.width)
             y2 == Min(self.y + self.height, other.y + other.height)
             intersection == (x2 - x1) * (y2 - y1)
             union == area(self) + area(other) - intersection
         IN IF x2 < x1 \/ y2 < y1 THEN RatZero
            ELSE IF union > 0 THEN Rat(intersection, union) ELSE RatZero

\* insert b into the list s sorted by descending confidence, after the equal ones
RECURSIVE InsertByConfidence(_, _)
InsertByConfidence(b, s) ==
    IF s = <<>> THEN <<b>>
    ELSE IF RatGeq(Head(s).confidence, b.confidence)
         THEN <<Head(s)>> \o InsertByConfidence(b, Tail(s))
         ELSE <<b>> \o s

RECURSIVE SortedByConfidence(_)
\* sorted(boxes, key=lambda b: b.confidence, reverse=True): stable, equal elements keep their order
SortedByConfidence(s) ==
    IF s = <<>> THEN <<>>
    ELSE InsertByConfidence(s[Len(s)], SortedByConfidence(SubSeq(s, 1, Len(s) - 1)))

RECURSIVE SumConfidence(_)
SumConfidence(s) == IF s = <<>> THEN RatZero ELSE RatAdd(Head(s).confidence, SumConfidence(Tail(s)))

\* max(boxes, key=lambda b: b.confidence): the first box of the highest confidence
MaxConfidenceBox(s) ==
    s[CHOOSE i \in 1..Len(s) :
        /\ \A j \in 1..Len(s) : RatGeq(s[i].confidence, s[j].confidence)
        /\ \A j \in 1..(i - 1) : ~RatGeq(s[j].confidence, s[i].confidence)]

SetMin(S) == CHOOSE m \in S : \A n \in S : m <= n

SetMax(S) == CHOOSE m \in S : \A n \in S : m >= n

\* CoordinateMapper._merge_box_group, for a non-empty group
merge_box_group(g) ==
    LET I == 1..Len(g)
        min_x == SetMin({g[i].x : i \in I})
        min_y == SetMin({g[i].y : i \in I})
        max_x == SetMax({g[i].x + g[i].width : i \in I})
        max_y == SetMax({g[i].y + g[i].height : i \in I})
        total == SumConfidence(g)
    IN BoundingBox(min_x, min_y, max_x - min_x, max_y - min_y, g[1].page_number,
                   Rat(total[1], total[2] * Len(g)), MaxConfidenceBox(g).label)

\* the elements of sb at the indices of J, in ascending index order
RECURSIVE PickAscending(_, _)
PickAscending(sb, J) ==
    IF J = {} THEN <<>>
    ELSE LET m == SetMin(J) IN <<sb[m]>> \o PickAscending(sb, J \ {m})

\* the loop "for i, box1 in enumerate(sorted_boxes)" from index i on, with the set used
RECURSIVE MergeLoop(_, _, _, _)
MergeLoop(sb, i, used, t) ==
    IF i > Len(sb) THEN <<>>
    ELSE IF i \in used THEN MergeLoop(sb, i + 1, used, t)
    ELSE LET J == {j \in (i + 1)..Len(sb) :
                      j \notin used /\ RatGeq(intersection_over_union(sb[i], sb[j]), t)}
             group == <<sb[i]>> \o PickAscending(sb, J)
             out == IF Len(group) = 1 THEN sb[i] ELSE merge_box_group(group)
         IN <<out>> \o MergeLoop(sb, i + 1, used \cup J, t)

\* CoordinateMapper.merge_overlapping_boxes
merge_overlapping_boxes(bs, t) ==
    IF bs = <<>> THEN <<>> ELSE MergeLoop(SortedByConfidence(bs), 1, {}, t)

(***************************************************************************)
(* intersection_over_union applied to pairs of boxes, in both directions     *)
(***************************************************************************)
\* largest x and y of a box
MaxCoord == 1

\* largest width and height of a box (0 is a degenerate box)
MaxSide == 2

\* number of pages boxes lie on
MaxPage == 2

DefaultConfidence == <<1, 1>>

BoxUniverse ==
    {BoundingBox(x, y, w, h, p, DefaultConfidence, "roi") :
        x \in 0..MaxCoord, y \in 0..MaxCoord, w \in 0..MaxSide, h \in 0..MaxSide, p \in 1..MaxPage}

\* iou_ab = a.intersection_over_union(b); iou_ba = b.intersection_over_union(a)
ComputeIoU ==
    /\ bpc = "start"
    /\ \E a, b \in BoxUniverse :
          /\ iou_args' = <<a, b>>
          /\ iou_ab' = intersection_over_union(a, b)
          /\ iou_ba' = intersection_over_union(b, a)
    /\ bpc' = "iou"
    /\ UNCHANGED <<boxes, threshold, merged1, merged2>>
    /\ UNCHANGED <<selVars, normVars, extVars>>

InitIoU ==
    /\ SelIdle /\ NormIdle /\ ExtIdle
    /\ bpc = "start" /\ boxes = <<>> /\ threshold = <<0, 1>> /\ merged1 = <<>> /\ merged2 = <<>>
    /\ iou_ab = <<0, 1>> /\ iou_ba = <<0, 1>> /\ iou_args = <<>>

NextIoU == ComputeIoU

SpecIoU == InitIoU /\ [][NextIoU]_vars

\* the unit cells of the page a box covers
Cells(b) == {<<i, j>> : i \in b.x..(b.x + b.width - 1), j \in b.y..(b.y + b.height - 1)}

\* the two boxes share no area
NonOverlapping(a, b) == Cells(a) \cap Cells(b) = {}

\* C9: intersection_over_union is symmetric, and it is 0 whenever the two boxes are on
\* different pages or do not overlap.
C9_IoUSymmetricAndZero ==
    bpc = "iou" =>
        LET a == iou_args[1]
            b == iou_args[2]
        IN /\ iou_ab = iou_ba
           /\ (a.page_number # b.page_number \/ NonOverlapping(a, b)) => iou_ab = RatZero

\* two different boxes of different size that partly overlap
C9_Witness ==
    /\ bpc = "iou"
    /\ area(iou_args[1]) # area(iou_args[2])
    /\ ~NonOverlapping(iou_args[1], iou_args[2])
    /\ iou_ab \notin {RatZero, RatOne}
    /\ iou_ab = iou_ba

\* C10 as stated: for every BoundingBox a, a.intersection_over_union(a) = 1.0.
C10_SelfIoUIsOne_Original ==
    (bpc = "iou" /\ iou_args[1] = iou_args[2]) => iou_ab = RatOne

\* C10 (amended): for every BoundingBox a of positive width and height,
\* a.intersection_over_union(a) = 1.0; for a box of zero area it is 0.0.
C10_SelfIoUIsOne ==
    (bpc = "iou" /\ iou_args[1] = iou_args[2]) =>
        LET a == iou_args[1]
        IN /\ (a.width > 0 /\ a.height > 0) => iou_ab = RatOne
           /\ area(a) = 0 => iou_ab = RatZero

\* a box of positive area was compared with itself
C10_Witness ==
    /\ bpc = "iou"
    /\ iou_args[1] = iou_args[2]
    /\ iou_args[1].width > 0
    /\ iou_args[1].height > 0
    /\ iou_ab = RatOne

(***************************************************************************)
(* merge_overlapping_boxes applied once and twice under the same threshold  *)
(***************************************************************************)
\* largest number of boxes of an input list
MaxBoxes == 3

\* largest x of a box to merge
MergeMaxX == 2

\* largest width of a box to merge
MergeMaxWidth == 2

Confidences == {<<1, 2>>, <<9, 10>>}

\* iou_threshold: 0.0, the default 0.5, 1.0
Thresholds == {<<0, 1>>, <<1, 2>>, <<1, 1>>}

MergeUniverse ==
    {BoundingBox(x, 0, w, 1, 1, c, "roi") :
        x \in 0..MergeMaxX, w \in 1..MergeMaxWidth, c \in Confidences}

InitMerge ==
    /\ SelIdle /\ NormIdle /\ ExtIdle
    /\ bpc = "start"
    /\ boxes \in UNION {[1..n -> MergeUniverse] : n \in 1..MaxBoxes}
    /\ threshold \in Thresholds
    /\ merged1 = <<>> /\ merged2 = <<>>
    /\ iou_ab = <<0, 1>> /\ iou_ba = <<0, 1>> /\ iou_args = <<>>

\* merged1 = merge_overlapping_boxes(boxes, t)
MergeOnce ==
    /\ bpc = "start"
    /\ merged1' = merge_overlapping_boxes(boxes, threshold)
    /\ bpc' = "once"
    /\ UNCHANGED <<boxes, threshold, merged2, iou_ab, iou_ba, iou_args>>
    /\ UNCHANGED <<selVars, normVars, extVars>>

\* merged2 = merge_overlapping_boxes(merged1, t)
MergeTwice ==
    /\ bpc = "once"
    /\ merged2' = merge_overlapping_boxes(merged1, threshold)
    /\ bpc' = "twice"
    /\ UNCHANGED <<boxes, threshold, merged1, iou_ab, iou_ba, iou_args>>
    /\ UNCHANGED <<selVars, normVars, extVars>>

NextMerge == MergeOnce \/ MergeTwice

SpecMerge == InitMerge /\ [][NextMerge]_vars

\* C8: merge_overlapping_boxes is idempotent under the same threshold:
\* merge(merge(boxes, t), t) = merge(boxes, t) for every list of boxes and every t.
C8_MergeIdempotent == bpc = "twice" => merged2 = merged1

(***************************************************************************)
(* ImageProcessor.create_tiles (utils/image_processor.py)                  *)
(***************************************************************************)
\* the TileInfo dataclass (the image and its base64 encoding are left out)
TileInfo(x, y, width, height, page_number, tile_number, total_tiles) ==
    [x |-> x, y |-> y, width |-> width, height |-> height,
     page_number |-> page_number, tile_number |-> tile_number,
     total_tiles |-> total_tiles]

\* "if roi: ... else: ..." : the region that is tiled
Region(image_sz, r) ==
    IF r # None
    THEN [x_start |-> r.x, y_start |-> r.y,
          region_width |-> r.width, region_height |-> r.height]
    ELSE [x_start |-> 0, y_start |-> 0,
          region_width |-> image_sz[1], region_height |-> image_sz[2]]

\* int(tile_width * (1 - overlap_percent)), overlap_percent = ov / 100
Step(t, ov) == (t * (100 - ov)) \div 100

\* len(range(0, stop, step)) for stop > 0 and step > 0
RangeLen(stop, step) == (stop + step - 1) \div step

\* "if region_width <= tile_width and region_height <= tile_height"
FitsOneTile(image_sz, tsize, r) ==
    /\ Region(image_sz, r).region_width <= tsize[1]
    /\ Region(image_sz, r).region_height <= tsize[2]

\* range(0, n, 0) raises ValueError
create_tiles_raises(image_sz, tsize, ov, r) ==
    /\ ~FitsOneTile(image_sz, tsize, r)
    /\ (Step(tsize[1], ov) = 0 \/ Step(tsize[2], ov) = 0)

create_tiles_TileSized(image_sz, page_number, tsize, ov, r) ==
    << TileInfo(Region(image_sz, r).x_start, Region(image_sz, r).y_start,
                tsize[1], tsize[2], page_number, 0, 1) >>

create_tiles(image_sz, page_number, tsize, ov, r) ==
    LET reg           == Region(image_sz, r)
        tile_width    == tsize[1]
        tile_height   == tsize[2]
        step_x        == Step(tile_width, ov)
        step_y        == Step(tile_height, ov)
        min_tile_size == Max(tile_width \div 4, tile_height \div 4)
    IN  IF FitsOneTile(image_sz, tsize, r)
        THEN << TileInfo(reg.x_start, reg.y_start, reg.region_width,
                         reg.region_height, page_number, 0, 1) >>
        ELSE
          LET nx == RangeLen(reg.region_width, step_x)
              ny == RangeLen(reg.region_height, step_y)
              \* the k-th (x, y) of the nested loops, y outer and x inner
              cand(k) ==
                  LET x     == ((k - 1) % nx) * step_x
                      y     == ((k - 1) \div nx) * step_y
                      x_end == Min(x + tile_width, reg.region_width)
                      y_end == Min(y + tile_height, reg.region_height)
                  IN  [x |-> x, y |-> y, w |-> x_end - x, h |-> y_end - y]
              cands == [k \in 1..(nx * ny) |-> cand(k)]
              \* "if (x_end - x) < min_tile_size or ...: continue"
              kept  == SelectSeq(cands,
                          LAMBDA c : ~(c.w < min_tile_size \/ c.h < min_tile_size))
          IN  [i \in 1..Len(kept) |->
                  TileInfo(reg.x_start + kept[i].x, reg.y_start + kept[i].y,
                           kept[i].w, kept[i].h, page_number, i - 1, Len(kept))]

\* ---- harness: one call of create_tiles on an arbitrary region ----
MaxRegion   == 10
MaxOffset   == 1
TileSizes   == {4, 8}
Overlaps    == {0, 10, 25, 50}
PageSize    == <<MaxRegion + MaxOffset, MaxRegion + MaxOffset>>
TilePage    == 1

RoiUniverse ==
    {BoundingBox(x, y, w, h, TilePage, DefaultConfidence, "roi") :
        x \in 0..MaxOffset, y \in 0..MaxOffset, w \in 1..MaxRegion, h \in 1..MaxRegion}

TileInit ==
    /\ tpc = "start"
    /\ \/ roi = None /\ image_size \in (1..MaxRegion) \X (1..MaxRegion)
       \/ roi \in RoiUniverse /\ image_size = PageSize
    /\ tile_size \in TileSizes \X TileSizes
    /\ overlap \in Overlaps
    /\ tiles = <<>>

CreateTiles ==
    /\ tpc = "start"
    /\ IF create_tiles_raises(image_size, tile_size, overlap, roi)
       THEN tpc' = "raised" /\ tiles' = <<>>
       ELSE tpc' = "done"
            /\ tiles' = create_tiles(image_size, TilePage, tile_size, overlap, roi)
    /\ UNCHANGED <<image_size, roi, tile_size, overlap>>
    /\ UNCHANGED notTileVars

InitTiles == SelIdle /\ NormIdle /\ BoxIdle /\ ExtIdleBut("tile") /\ TileInit

NextTiles == CreateTiles

SpecTiles == InitTiles /\ [][NextTiles]_vars

\* C11: when the region's width and height are both no larger than the tile
\* size, create_tiles returns exactly one tile whose x, y, width and height
\* are the region's, with tile_number 0 and total_tiles 1.
C11_SingleTile ==
    (tpc = "done" /\ FitsOneTile(image_size, tile_size, roi)) =>
        /\ Len(tiles) = 1
        /\ tiles[1].x = Region(image_size, roi).x_start
        /\ tiles[1].y = Region(image_size, roi).y_start
        /\ tiles[1].width = Region(image_size, roi).region_width
        /\ tiles[1].height = Region(image_size, roi).region_height
        /\ tiles[1].tile_number = 0
        /\ tiles[1].total_tiles = 1

C11_Witness ==
    /\ tpc = "done" /\ roi # None /\ FitsOneTile(image_size, tile_size, roi)
    /\ roi.x = 1 /\ roi.width < tile_size[1] /\ Len(tiles) = 1

\* a pixel of the page lies inside tile t
InTile(px, py, t) ==
    /\ t.x <= px /\ px < t.x + t.width
    /\ t.y <= py /\ py < t.y + t.height

\* every pixel of the region lies inside some emitted tile
RegionCovered ==
    LET reg == Region(image_size, roi)
    IN  \A px \in reg.x_start..(reg.x_start + reg.region_width - 1) :
          \A py \in reg.y_start..(reg.y_start + reg.region_height - 1) :
            \E i \in 1..Len(tiles) : InTile(px, py, tiles[i])

\* no emitted tile is smaller than a quarter of the tile size in either dimension
NoTileBelowFloor ==
    \A i \in 1..Len(tiles) :
        /\ tiles[i].width >= tile_size[1] \div 4
        /\ tiles[i].height >= tile_size[2] \div 4

\* C12: for a region larger than one tile the emitted tiles cover every pixel
\* of the region with no gaps, and no emitted tile is below the quarter-size
\* floor, for every region size, tile size and overlap in [0, 0.5].
C12_TilesCoverRegion ==
    (tpc \in {"done", "raised"} /\ ~FitsOneTile(image_size, tile_size, roi)) =>
        /\ tpc = "done"
        /\ RegionCovered
        /\ NoTileBelowFloor

(***************************************************************************)
(* DocumentMetrics._calculate_complexity (base_strategy.py) and            *)
(* OpenAINativeStrategy.can_handle.  Scores are counted in tenths: every   *)
(* band adds a multiple of 0.1.                                            *)
(***************************************************************************)
\* file size component
SizeBand(file_size_mb) ==
    IF file_size_mb < 5 THEN 0
    ELSE IF file_size_mb < 20 THEN 1
    ELSE IF file_size_mb < 50 THEN 2
    ELSE 3

\* page count component
PageBand(page_count) ==
    IF page_count < 5 THEN 0
    ELSE IF page_count < 15 THEN 1
    ELSE IF page_count < 30 THEN 2
    ELSE 3

DpiBand_HighIsZero(average_dpi) ==
    IF Truthy(average_dpi)
    THEN IF average_dpi.n < 150 THEN 0
         ELSE IF average_dpi.n < 250 THEN 1
         ELSE 0
    ELSE 0

\* DPI component: "if self.average_dpi:" adds nothing for None and for 0
DpiBand(average_dpi) ==
    IF Truthy(average_dpi)
    THEN IF average_dpi.n < 150 THEN 0
         ELSE IF average_dpi.n < 250 THEN 1
         ELSE 2
    ELSE 0

\* scanned document penalty
ScannedBand(is_scanned) == IF is_scanned THEN 2 ELSE 0

\* _calculate_complexity: min(score, 1.0), in tenths
calculate_complexity(m) ==
    Min(SizeBand(m.file_size_mb) + PageBand(m.page_count)
          + DpiBand(m.average_dpi) + ScannedBand(m.is_scanned), 10)

\* ---- harness: two documents, the second no smaller in any field ----
BandSizesMb == {3, 5, 20, 49, 50}

BandPageCounts == {2, 5, 10, 11, 15, 30}

BandDpiValues == {None, Num(0), Num(100), Num(150), Num(250), Num(299), Num(300)}

MetricsUniverse ==
    [file_size_mb : BandSizesMb, page_count : BandPageCounts,
     average_dpi : BandDpiValues, is_scanned : BOOLEAN]

\* unknown DPI is the bottom of the DPI order
DpiRank(average_dpi) == IF average_dpi.t = "none" THEN -1 ELSE average_dpi.n

\* b is no smaller than a in every input of the score
NoSmaller(a, b) ==
    /\ a.file_size_mb <= b.file_size_mb
    /\ a.page_count <= b.page_count
    /\ DpiRank(a.average_dpi) <= DpiRank(b.average_dpi)
    /\ (a.is_scanned => b.is_scanned)

\* a and b differ in at most one input
AtMostOneDiffers(a, b) ==
    Cardinality({f \in {"file_size_mb", "page_count", "average_dpi", "is_scanned"} :
                    a[f] # b[f]}) <= 1

\* the 2-page, 3 MB, 150-DPI, non-scanned document
SmallDocument ==
    [file_size_mb |-> 3, page_count |-> 2, average_dpi |-> Num(150), is_scanned |-> FALSE]

MetInit ==
    /\ mpc = "start"
    /\ doc \in MetricsUniverse
    /\ doc2 \in {d \in MetricsUniverse : NoSmaller(doc, d) /\ AtMostOneDiffers(doc, d)}
    /\ score = 0 /\ score2 = 0 /\ handles = FALSE

\* DocumentMetrics.__post_init__ for both documents
ComputeComplexity ==
    /\ mpc = "start"
    /\ mpc' = "scored"
    /\ score' = calculate_complexity(doc)
    /\ score2' = calculate_complexity(doc2)
    /\ UNCHANGED <<doc, doc2, handles>>
    /\ UNCHANGED notMetVars

\* OpenAINativeStrategy.can_handle(doc)
CanHandle ==
    /\ mpc = "scored"
    /\ mpc' = "done"
    /\ handles' = can_handle("openai_native", doc)
    /\ UNCHANGED <<doc, doc2, score, score2>>
    /\ UNCHANGED notMetVars

InitMetrics == SelIdle /\ NormIdle /\ BoxIdle /\ ExtIdleBut("met") /\ MetInit

NextMetrics == ComputeComplexity \/ CanHandle

SpecMetrics == InitMetrics /\ [][NextMetrics]_vars

\* C13: complexity_score is always within [0, 1] and is monotonic
\* non-decreasing in each of its four inputs (size band, page band, DPI band
\* with unknown DPI lowest, scanned flag).
C13_ComplexityBoundedMonotonic ==
    mpc \in {"scored", "done"} =>
        /\ 0 <= score /\ score <= 10
        /\ 0 <= score2 /\ score2 <= 10
        /\ score <= score2

C13_Witness ==
    /\ mpc = "done" /\ doc.average_dpi = None /\ doc2.average_dpi = Num(300)
    /\ doc.file_size_mb = 50 /\ doc.page_count = 30 /\ doc.is_scanned
    /\ score = 8 /\ score2 = 10

\* C14: the 2-page, 3 MB, 150-DPI, non-scanned document scores below 0.3 and
\* OpenAINativeStrategy.can_handle accepts it; in general can_handle is true
\* exactly when file_size_mb < 50, page_count <= 10 and average_dpi is unknown
\* or below 300.
C14_CanHandleExact ==
    mpc = "done" =>
        /\ handles = (/\ doc.file_size_mb < 50
                      /\ doc.page_count <= 10
                      /\ (doc.average_dpi.t = "none" \/ doc.average_dpi.n < 300))
        /\ (doc = SmallDocument => (score < 3 /\ handles))

C14_Witness == mpc = "done" /\ doc = SmallDocument /\ handles /\ score = 1

(***************************************************************************)
(* ClaudeTilingStrategy._deduplicate_items and _merge_items                *)
(* (strategies/claude_tiling_strategy.py)                                  *)
(***************************************************************************)
\* key universe of the extracted items; keys that start with "_" are metadata
ItemKeys == {"item_number", "description", "unit", "code", "name", "_tile_meta"}

UnderscoreKeys == {"_tile_meta"}

\* an extracted item: a dict with the keys of the record f
MkItem(f) ==
    [t |-> "dict", k |-> DOMAIN f,
     v |-> [key \in ItemKeys |-> IF key \in DOMAIN f THEN f[key] ELSE None]]

UpperCase == <<"A", "B", "C", "D">>

LowerCase == <<"a", "b", "c", "d">>

\* str.lower(), one character
Lower(c) ==
    IF \E i \in 1..Len(UpperCase) : UpperCase[i] = c
    THEN LowerCase[CHOOSE i \in 1..Len(UpperCase) : UpperCase[i] = c]
    ELSE c

\* str.lower()
LowerSeq(s) == [i \in 1..Len(s) |-> Lower(s[i])]

\* str(value) for a string or a non-negative integer
StrOf(value) == IF value.t = "str" THEN value.s ELSE PyStr(value.n)

\* the key_values list: str(value).lower().strip() of every truthy key field
RECURSIVE KeyValues(_, _)
KeyValues(item, key_fields) ==
    IF key_fields = <<>> THEN <<>>
    ELSE LET value == GetOr(item, Head(key_fields), Str(<<>>))
             rest  == KeyValues(item, Tail(key_fields))
         IN  IF Truthy(value)
             THEN <<Strip(LowerSeq(StrOf(value)))>> \o rest
             ELSE rest

\* " ".join(parts)
RECURSIVE Join(_)
Join(parts) ==
    IF parts = <<>> THEN <<>>
    ELSE IF Len(parts) = 1 THEN parts[1]
    ELSE parts[1] \o <<" ">> \o Join(Tail(parts))

\* length of the longest common subsequence
RECURSIVE Lcs(_, _)
Lcs(a, b) ==
    IF a = <<>> \/ b = <<>> THEN 0
    ELSE IF Head(a) = Head(b) THEN 1 + Lcs(Tail(a), Tail(b))
    ELSE Max(Lcs(Tail(a), b), Lcs(a, Tail(b)))

\* int(round(n / d)) for n >= 0, d > 0: Python rounds halves to even
PyRound(n, d) ==
    LET q == n \div d
        r == n % d
    IN  IF 2 * r < d THEN q
        ELSE IF 2 * r > d THEN q + 1
        ELSE IF q % 2 = 0 THEN q ELSE q + 1

\* fuzz.ratio(a, b): 0 for an empty string, else 100 * 2 * matches / total length
ratio(a, b) ==
    IF a = <<>> \/ b = <<>> THEN 0
    ELSE PyRound(200 * Lcs(a, b), Len(a) + Len(b))

\* self.fuzzy_threshold
FUZZY_THRESHOLD == 85

\* the indices in idxs as a list in ascending order
RECURSIVE SortedIndices(_)
SortedIndices(idxs) ==
    IF idxs = {} THEN <<>>
    ELSE LET i == CHOOSE x \in idxs : \A y \in idxs : x <= y
         IN  <<i>> \o SortedIndices(idxs \ {i})

\* _merge_items: a key is (re)assigned while it is missing, None or ""
merge_items(items) ==
    LET RECURSIVE Fold(_, _)
        Fold(merged, rest) ==
            IF rest = <<>> THEN merged
            ELSE LET item == Head(rest)
                     take(key) ==
                         /\ key \in item.k /\ key \notin UnderscoreKeys
                         /\ \/ key \notin merged.k
                            \/ merged.v[key].t = "none"
                            \/ (merged.v[key].t = "str" /\ merged.v[key].s = <<>>)
                 IN  Fold([t |-> "dict",
                           k |-> merged.k \cup {key \in item.k : key \notin UnderscoreKeys},
                           v |-> [key \in ItemKeys |->
                                     IF take(key) THEN item.v[key] ELSE merged.v[key]]],
                          Tail(rest))
    IN  Fold(MkItem(<<>>), items)

\* the "matches" index lists built by the outer loop of _deduplicate_items
RECURSIVE dedup_groups(_, _, _, _)
dedup_groups(items, key_fields, i, used_indices) ==
    IF i > Len(items) THEN <<>>
    ELSE IF i \in used_indices \/ KeyValues(items[i], key_fields) = <<>>
    THEN dedup_groups(items, key_fields, i + 1, used_indices)
    ELSE LET key == Join(KeyValues(items[i], key_fields))
             dups == {j \in (i + 1)..Len(items) :
                        /\ j \notin used_indices
                        /\ KeyValues(items[j], key_fields) # <<>>
                        /\ ratio(key, Join(KeyValues(items[j], key_fields)))
                              >= FUZZY_THRESHOLD}
         IN  <<SortedIndices({i} \cup dups)>>
               \o dedup_groups(items, key_fields, i + 1, used_indices \cup dups)

\* _deduplicate_items: every group merged by _merge_items
deduplicate_items(items, key_fields) ==
    LET groups == dedup_groups(items, key_fields, 1, {})
    IN  [g \in 1..Len(groups) |->
            merge_items([n \in 1..Len(groups[g]) |-> items[groups[g][n]]])]

BidItemKeyFields == <<"item_number", "description">>

\* ---- harness: one call of _deduplicate_items on a list of bid items ----
MaxDedupItems == 2

ItemNumbers == {Str(<<"1">>), Str(<<"1", " ">>)}

Descriptions ==
    {Str(<<>>), Str(<<" ">>), Str(<<"a", "b">>), Str(<<"A", "b", " ">>), Str(<<"c", "d">>)}

Units == {None, Str(<<>>), Str(<<"x">>), Str(<<"y">>)}

DedupUniverse ==
    {MkItem([item_number |-> n, description |-> d, unit |-> u]) :
        n \in ItemNumbers, d \in Descriptions, u \in Units}
    \cup {MkItem([item_number |-> n, description |-> d]) :
        n \in ItemNumbers, d \in Descriptions}

DedupInit ==
    /\ dpc = "start"
    /\ ditems \in UNION {[1..n -> DedupUniverse] : n \in 0..MaxDedupItems}
    /\ dgroups = <<>> /\ deduped = <<>>

Deduplicate ==
    /\ dpc = "start"
    /\ dpc' = "done"
    /\ dgroups' = dedup_groups(ditems, BidItemKeyFields, 1, {})
    /\ deduped' = deduplicate_items(ditems, BidItemKeyFields)
    /\ UNCHANGED ditems
    /\ UNCHANGED notDedupVars

InitDedup == SelIdle /\ NormIdle /\ BoxIdle /\ ExtIdleBut("dedup") /\ DedupInit

NextDedup == Deduplicate

SpecDedup == InitDedup /\ [][NextDedup]_vars

\* the key of two items differs only in letter case or surrounding whitespace
SameKeyUpToCaseAndSpace(a, b) ==
    \A i \in 1..Len(BidItemKeyFields) :
        Strip(LowerSeq(StrOf(GetOr(a, BidItemKeyFields[i], Str(<<>>)))))
          = Strip(LowerSeq(StrOf(GetOr(b, BidItemKeyFields[i], Str(<<>>)))))

\* a value that is neither None nor ""
NonEmpty(value) == ~(value.t = "none" \/ (value.t = "str" /\ value.s = <<>>))

\* output item o holds, for every field, the first non-empty value of the group
HoldsFirstNonEmpty(o, group) ==
    \A key \in ItemKeys \ UnderscoreKeys :
        \A n \in 1..Len(group) :
            (/\ key \in ditems[group[n]].k
             /\ NonEmpty(ditems[group[n]].v[key])
             /\ \A m \in 1..(n - 1) :
                   ~(key \in ditems[group[m]].k /\ NonEmpty(ditems[group[m]].v[key])))
            => (key \in o.k /\ o.v[key] = ditems[group[n]].v[key])

\* C16: two bid items whose key (item_number + description) differs only in
\* letter case or surrounding whitespace end up in exactly one output item,
\* and that item holds for each field the first non-empty value of the merged
\* items in input order.
C16_SameKeyMerged ==
    dpc = "done" =>
        \A i \in 1..Len(ditems) : \A j \in (i + 1)..Len(ditems) :
            SameKeyUpToCaseAndSpace(ditems[i], ditems[j]) =>
                /\ Cardinality({g \in 1..Len(dgroups) :
                        \E n \in 1..Len(dgroups[g]) : dgroups[g][n] \in {i, j}}) = 1
                /\ \A g \in 1..Len(dgroups) :
                        (\E n \in 1..Len(dgroups[g]) : dgroups[g][n] = i)
                            => HoldsFirstNonEmpty(deduped[g], dgroups[g])

(***************************************************************************)
(* ClaudeTilingStrategy (strategies/claude_tiling_strategy.py): pure parts *)
(***************************************************************************)
\* what an inference call can give back: an exception, text that is not JSON
\* (directly or in a ```json block), or text that holds the JSON value j
ApiError == [r |-> "raise"]

Unparseable == [r |-> "text"]

Json(j) == [r |-> "json", j |-> j]

\* text holding the JSON value j inside a block fenced by ``` + tag
Fenced(tag, j) == [r |-> "fenced", tag |-> tag, j |-> j]

\* _parse_json_response: the parsed value, or None
parse_json_response(resp) ==
    IF resp.r = "json" THEN resp.j
    ELSE IF resp.r = "fenced" /\ resp.tag = "json" THEN resp.j
    ELSE None

\* len(v) works for lists, strings and dicts
Sized(v) == v.t \in {"list", "str", "dict"}

\* data["_tile_meta"] = {...}: the key becomes present
WithTileMeta(data) == [data EXCEPT !.k = @ \cup {"_tile_meta"}]

\* "if data:" block of _process_tile_with_claude raises (AttributeError on
\* data.get, TypeError on len)
tile_logging_raises(data) ==
    /\ Truthy(data)
    /\ \/ data.t # "dict"
       \/ ~Sized(GetOr(data, "bid_items", List(<<>>)))
       \/ ~Sized(GetOr(data, "materials", List(<<>>)))
       \/ ~Sized(GetOr(data, "specifications", List(<<>>)))

\* _process_tile_with_claude: every exception inside is turned into None
process_tile_with_claude(resp) ==
    IF resp.r = "raise" THEN None
    ELSE LET data == parse_json_response(resp)
         IN  IF tile_logging_raises(data) THEN None
             ELSE IF Truthy(data) THEN WithTileMeta(data)
             ELSE data

\* the filter after asyncio.gather: "if isinstance(result, dict)"
valid_results(rets) == SelectSeq(rets, LAMBDA ret : ret.t = "dict")

\* list.extend(v) for a list, a string (its characters) or a dict (its keys)
Elements(v) ==
    CASE v.t = "list" -> v.l
      [] v.t = "str"  -> [i \in 1..Len(v.s) |-> Str(<<v.s[i]>>)]
      [] OTHER        -> <<>>

\* concatenation of result.get(key, []) over the truthy results
RECURSIVE Collect(_, _)
Collect(results, key) ==
    IF results = <<>> THEN <<>>
    ELSE IF ~Truthy(Head(results)) THEN Collect(Tail(results), key)
    ELSE Elements(GetOr(Head(results), key, List(<<>>))) \o Collect(Tail(results), key)

\* the project_info dicts kept by _aggregate_results
RECURSIVE CollectProjectInfos(_)
CollectProjectInfos(results) ==
    IF results = <<>> THEN <<>>
    ELSE LET res       == Head(results)
             proj_info == GetOr(res, "project_info", EmptyDict)
         IN  IF Truthy(res) /\ Truthy(proj_info)
                  /\ \E key \in proj_info.k : Truthy(proj_info.v[key])
             THEN <<proj_info>> \o CollectProjectInfos(Tail(results))
             ELSE CollectProjectInfos(Tail(results))

\* _aggregate_results raises: extend() of a value that is not iterable,
\* item.get on an element that is not a dict, .values() on a project_info
\* that is not a dict
aggregate_raises(results) ==
    \E n \in 1..Len(results) :
        /\ Truthy(results[n])
        /\ \/ \E key \in {"bid_items", "specifications", "materials"} :
                LET v == GetOr(results[n], key, List(<<>>))
                IN  \/ ~Sized(v)
                    \/ \E i \in 1..Len(Elements(v)) : Elements(v)[i].t # "dict"
                    \/ (v.t = "dict" /\ v.k # {})
           \/ LET pi == GetOr(results[n], "project_info", EmptyDict)
              IN  Truthy(pi) /\ pi.t # "dict"

\* number of truthy values of a project_info dict
Completeness(p) == Cardinality({key \in p.k : Truthy(p.v[key])})

\* sorted(project_infos, key=completeness, reverse=True): stable
RECURSIVE InsertByCompleteness(_, _)
InsertByCompleteness(x, s) ==
    IF s = <<>> THEN <<x>>
    ELSE IF Completeness(Head(s)) >= Completeness(x)
         THEN <<Head(s)>> \o InsertByCompleteness(x, Tail(s))
         ELSE <<x>> \o s

RECURSIVE SortedByCompleteness(_)
SortedByCompleteness(s) ==
    IF s = <<>> THEN <<>>
    ELSE InsertByCompleteness(s[Len(s)], SortedByCompleteness(SubSeq(s, 1, Len(s) - 1)))

\* _merge_project_info
merge_project_info(project_infos) ==
    IF project_infos = <<>>
    THEN MkDict([name |-> None, location |-> None, bid_date |-> None])
    ELSE LET sorted_infos == SortedByCompleteness(project_infos)
             RECURSIVE Fill(_, _)
             Fill(merged, rest) ==
                 IF rest = <<>> THEN merged
                 ELSE LET info == Head(rest)
                          take(key) ==
                              /\ key \in info.k
                              /\ (key \notin merged.k \/ ~Truthy(merged.v[key]))
                      IN  Fill([t |-> "dict", k |-> merged.k \cup info.k,
                                v |-> [key \in AllKeys |->
                                          IF take(key) THEN info.v[key] ELSE merged.v[key]]],
                               Tail(rest))
         IN  Fill(sorted_infos[1], Tail(sorted_infos))

\* _aggregate_results, when it does not raise
aggregate_results(results) ==
    MkTop([bid_items      |-> List(deduplicate_items(Collect(results, "bid_items"),
                                                     BidItemKeyFields)),
           specifications |-> List(deduplicate_items(Collect(results, "specifications"),
                                                     <<"code">>)),
           project_info   |-> merge_project_info(CollectProjectInfos(results)),
           materials      |-> List(deduplicate_items(Collect(results, "materials"),
                                                     <<"name">>))])

parse_full_pages_NoneOnError(resp) ==
    IF resp.r = "raise" THEN None
    ELSE LET data == parse_json_response(resp)
         IN  IF Truthy(data) THEN data ELSE EmptyDict

\* _parse_full_pages: "return data or {}", and {} for any exception
parse_full_pages(resp) ==
    IF resp.r = "raise" THEN EmptyDict
    ELSE LET data == parse_json_response(resp)
         IN  IF Truthy(data) THEN data ELSE EmptyDict

\* _calculate_confidence raises: data.get on a non-dict, iteration over a
\* number, item.get on a non-dict element, .values() on a non-dict
confidence_raises(data) ==
    \/ data.t # "dict"
    \/ LET bid_items == GetOr(data, "bid_items", List(<<>>))
       IN  /\ Truthy(bid_items)
           /\ \/ bid_items.t = "num"
              \/ \E i \in 1..Len(Elements(bid_items)) : Elements(bid_items)[i].t # "dict"
              \/ bid_items.t = "dict"
    \/ LET proj_info == GetOr(data, "project_info", EmptyDict)
       IN  Truthy(proj_info) /\ proj_info.t # "dict"

\* _calculate_confidence, when it does not raise, as a rational
calculate_confidence(data) ==
    LET bid_items == GetOr(data, "bid_items", List(<<>>))
        proj_info == GetOr(data, "project_info", EmptyDict)
        complete  == Cardinality({i \in 1..Len(Elements(bid_items)) :
                         /\ Truthy(Get(Elements(bid_items)[i], "item_number"))
                         /\ Truthy(Get(Elements(bid_items)[i], "description"))})
        items_part ==
            IF Truthy(bid_items)
            THEN RatAdd(Rat(4, 10), Rat(2 * complete, 10 * Len(Elements(bid_items))))
            ELSE RatZero
        info_part ==
            IF Truthy(proj_info) /\ \E key \in proj_info.k : Truthy(proj_info.v[key])
            THEN Rat(2, 10) ELSE RatZero
        specs_part == IF Truthy(Get(data, "specifications")) THEN Rat(1, 10) ELSE RatZero
        mats_part  == IF Truthy(Get(data, "materials")) THEN Rat(1, 10) ELSE RatZero
        total == RatAdd(RatAdd(items_part, info_part), RatAdd(specs_part, mats_part))
    IN  IF RatGeq(total, RatOne) THEN RatOne ELSE total

\* "except Exception" in parse catches every exception a phase can raise
ExceptionKinds == {"AttributeError", "TypeError"}

ParseCatches_TypeErrorOnly(kind) == kind = "TypeError"

ParseCatches(kind) == kind \in ExceptionKinds

\* the ParseResult built by parse; the other fields do not steer control
ClaudeParseResult(success, data, error, confidence_score) ==
    [success |-> success, data |-> data, error |-> error,
     confidence_score |-> confidence_score]

\* the loop body of parse_with_fallback goes on to the next strategy after
\* the ParseResult r: r failed, or normalizing its truthy data raised
selector_moves_on(r) ==
    \/ ~r.success
    \/ (Truthy(r.data) /\ Normalize(r.data) = Raised)

(***************************************************************************)
(* ClaudeTilingStrategy.parse as a state machine.  An inference call of a  *)
(* tile is a suspension point: between its start and its return other tile *)
(* tasks run, as far as the semaphore lets them.                           *)
(***************************************************************************)
MaxPagesArg   == 2
MaxTiles      == 2
MaxConcurrent == 2

\* range(1, min(max_pages + 1, 6)) ends at this page
COARSE_PAGE_CAP == 5

LastCoarsePage_NoCap(max_pages) == max_pages

LastCoarsePage(max_pages) == Min(max_pages, COARSE_PAGE_CAP)

\* what one page of the coarse scan can run into
CoarseOutcomes == {"raise", "unparseable", "no_regions", "one_region"}

ItemA == MkItem([item_number |-> Str(<<"1">>), description |-> Str(<<"a", "b">>)])

SpecA == MkItem([code |-> Str(<<"a">>)])

\* answers of the model to a tile or to the full-page prompt
GoodPayload == MkTop([bid_items |-> List(<<ItemA>>)])

NullItemsPayload == MkTop([bid_items |-> None, specifications |-> List(<<SpecA>>)])

StrItemsPayload == MkTop([bid_items |-> Str(<<"a">>)])

NumItemsPayload == MkTop([bid_items |-> Num(5)])

JsonArray == List(<<Num(1)>>)

TileResponses ==
    {ApiError, Unparseable, Json(GoodPayload), Json(EmptyDict),
     Json(NullItemsPayload), Json(StrItemsPayload), Json(JsonArray)}

FullPageResponses ==
    {ApiError, Unparseable, Json(GoodPayload), Json(EmptyDict),
     Json(NullItemsPayload), Json(NumItemsPayload), Json(JsonArray)}

\* str(e)
ErrorText(kind) == Str(<<kind>>)

\* the exception _calculate_confidence raises on data
ConfidenceException(data) ==
    IF data.t = "dict" /\ GetOr(data, "bid_items", List(<<>>)).t = "num"
    THEN "TypeError" ELSE "AttributeError"

InFlight == {t \in 1..Len(tstate) : tstate[t] = "inflight"}

CanAcquire_Always(permits) == TRUE

\* "async with semaphore" enters only while a permit is free
CanAcquire(permits) == permits > 0

ClaudeInit ==
    /\ cpc = "coarse"
    /\ cmax_pages \in 1..MaxPagesArg
    /\ max_concurrent \in 1..MaxConcurrent
    /\ cpage = 1
    /\ coarse_log = <<>> /\ roi_list = <<>> /\ phases = <<"coarse">> /\ droi = 0
    /\ skip_page = 0 /\ tstate = <<>> /\ tresp = <<>> /\ tret = <<>> /\ sem = 0
    /\ finished = <<>>
    /\ tile_log = <<>> /\ all_results = <<>> /\ result_data = None
    /\ cresult = NoResult /\ caught = {} /\ c_exc = "none"

\* one iteration of the loop of _coarse_scan
CoarsePage ==
    /\ cpc = "coarse" /\ cpage <= LastCoarsePage(cmax_pages)
    /\ \E outcome \in CoarseOutcomes :
        /\ coarse_log' = Append(coarse_log, [page |-> cpage, outcome |-> outcome])
        /\ roi_list' = IF outcome = "one_region"
                       THEN Append(roi_list, [page_number |-> cpage])
                       ELSE roi_list
        /\ caught' = IF outcome \in {"raise", "unparseable"}
                     THEN caught \cup {"coarse"} ELSE caught
    /\ cpage' = cpage + 1
    /\ UNCHANGED <<cpc, cmax_pages, max_concurrent, phases, droi, skip_page, tstate,
                   tresp, tret, sem, finished, tile_log, all_results, result_data, cresult, c_exc>>
    /\ UNCHANGED notClaudeVars

no_roi_Inverted(rois) == rois # <<>>

\* "if not roi_list:"
no_roi(rois) == rois = <<>>

\* _coarse_scan returns; "if not roi_list:" picks the branch
CoarseDone ==
    /\ cpc = "coarse" /\ cpage > LastCoarsePage(cmax_pages)
    /\ IF no_roi(roi_list)
       THEN cpc' = "fullpage" /\ phases' = Append(phases, "fullpage") /\ droi' = droi
       ELSE cpc' = "detail" /\ phases' = Append(phases, "detail") /\ droi' = 1
    /\ UNCHANGED <<cmax_pages, max_concurrent, cpage, coarse_log, roi_list, skip_page,
                   tstate, tresp, tret, sem, finished, tile_log, all_results, result_data,
                   cresult, caught, c_exc>>
    /\ UNCHANGED notClaudeVars

\* _parse_full_pages
FullPage ==
    /\ cpc = "fullpage"
    /\ \E resp \in FullPageResponses :
        /\ result_data' = parse_full_pages(resp)
        /\ caught' = IF resp.r = "raise" THEN caught \cup {"fullpage"} ELSE caught
    /\ cpc' = "confidence"
    /\ UNCHANGED <<cmax_pages, max_concurrent, cpage, coarse_log, roi_list, phases, droi,
                   skip_page, tstate, tresp, tret, sem, finished, tile_log, all_results,
                   cresult, c_exc>>
    /\ UNCHANGED notClaudeVars

\* _detail_pass reaches the next ROI: its page does not render or the tiling
\* raises (the rest of the page is skipped), or its tiles are created and the
\* batch of tile tasks starts with a fresh semaphore
DetailRoi ==
    /\ cpc = "detail" /\ droi <= Len(roi_list)
    /\ IF roi_list[droi].page_number = skip_page
       THEN /\ droi' = droi + 1
            /\ UNCHANGED <<cpc, skip_page, tstate, tresp, tret, sem, finished, caught>>
       ELSE \/ /\ skip_page' = roi_list[droi].page_number
               /\ caught' = caught \cup {"detail"}
               /\ droi' = droi + 1
               /\ UNCHANGED <<cpc, tstate, tresp, tret, sem, finished>>
            \/ \E n \in 0..MaxTiles :
               /\ cpc' = "batch"
               /\ tstate' = [t \in 1..n |-> "wait"]
               /\ tresp' = [t \in 1..n |-> Unparseable]
               /\ tret' = [t \in 1..n |-> None]
               /\ sem' = max_concurrent
               /\ finished' = <<>>
               /\ UNCHANGED <<droi, skip_page, caught>>
    /\ UNCHANGED <<cmax_pages, max_concurrent, cpage, coarse_log, roi_list, phases,
                   tile_log, all_results, result_data, cresult, c_exc>>
    /\ UNCHANGED notClaudeVars

\* a tile task enters "async with semaphore" and sends its inference call
TileStart ==
    /\ cpc = "batch"
    /\ \E t \in 1..Len(tstate) :
        /\ tstate[t] = "wait" /\ CanAcquire(sem)
        /\ tstate' = [tstate EXCEPT ![t] = "inflight"]
        /\ sem' = sem - 1
    /\ UNCHANGED <<cpc, cmax_pages, max_concurrent, cpage, coarse_log, roi_list, phases,
                   droi, skip_page, tresp, tret, finished, tile_log, all_results,
                   result_data, cresult, caught, c_exc>>
    /\ UNCHANGED notClaudeVars

\* the inference call of a tile returns or raises; _process_tile_with_claude
\* returns and the permit is released
TileFinish ==
    /\ cpc = "batch"
    /\ \E t \in 1..Len(tstate) : \E resp \in TileResponses :
        /\ tstate[t] = "inflight"
        /\ tstate' = [tstate EXCEPT ![t] = "done"]
        /\ tresp' = [tresp EXCEPT ![t] = resp]
        /\ tret' = [tret EXCEPT ![t] = process_tile_with_claude(resp)]
        /\ sem' = sem + 1
        /\ finished' = Append(finished, t)
        /\ caught' = IF process_tile_with_claude(resp) = None
                     THEN caught \cup {"tile"} ELSE caught
    /\ UNCHANGED <<cpc, cmax_pages, max_concurrent, cpage, coarse_log, roi_list, phases,
                   droi, skip_page, tile_log, all_results, result_data, cresult, c_exc>>
    /\ UNCHANGED notClaudeVars

gather_AsCompleted(rets, order) == [n \in 1..Len(order) |-> rets[order[n]]]

\* results = await asyncio.gather(*tasks): the results come in the order of
\* the tasks, whatever the order in which they completed
gather(rets, order) == rets

\* asyncio.gather returns once every task is done; the dicts are appended to
\* all_results in tile order
Gather ==
    /\ cpc = "batch"
    /\ \A t \in 1..Len(tstate) : tstate[t] = "done"
    /\ all_results' = all_results \o valid_results(gather(tret, finished))
    /\ tile_log' = tile_log \o tresp
    /\ droi' = droi + 1
    /\ finished' = <<>>
    /\ cpc' = "detail"
    /\ UNCHANGED <<cmax_pages, max_concurrent, cpage, coarse_log, roi_list, phases,
                   skip_page, tstate, tresp, tret, sem, result_data, cresult, caught,
                   c_exc>>
    /\ UNCHANGED notClaudeVars

\* the page loop of _detail_pass is over: "Phase 3" starts
DetailDone ==
    /\ cpc = "detail" /\ droi > Len(roi_list)
    /\ cpc' = "aggregate" /\ phases' = Append(phases, "aggregate")
    /\ UNCHANGED <<cmax_pages, max_concurrent, cpage, coarse_log, roi_list, droi,
                   skip_page, tstate, tresp, tret, sem, finished, tile_log, all_results,
                   result_data, cresult, caught, c_exc>>
    /\ UNCHANGED notClaudeVars

\* an exception leaves the try block of parse
ParseExcept(kind) ==
    /\ c_exc' = kind
    /\ IF ParseCatches(kind)
       THEN /\ cpc' = "done"
            /\ cresult' = ClaudeParseResult(FALSE, None, ErrorText(kind), RatZero)
       ELSE /\ cpc' = "escaped"
            /\ cresult' = cresult

\* _aggregate_results(all_results)
Aggregate ==
    /\ cpc = "aggregate"
    /\ IF aggregate_raises(all_results)
       THEN ParseExcept("AttributeError") /\ UNCHANGED <<result_data, phases>>
       ELSE /\ result_data' = aggregate_results(all_results)
            /\ cpc' = "confidence"
            /\ UNCHANGED <<cresult, c_exc, phases>>
    /\ UNCHANGED <<cmax_pages, max_concurrent, cpage, coarse_log, roi_list, droi,
                   skip_page, tstate, tresp, tret, sem, finished, tile_log, all_results, caught>>
    /\ UNCHANGED notClaudeVars

\* _calculate_confidence(result_data) and the return of parse
Confidence ==
    /\ cpc = "confidence"
    /\ IF confidence_raises(result_data)
       THEN ParseExcept(ConfidenceException(result_data)) /\ UNCHANGED phases
       ELSE /\ cresult' = ClaudeParseResult(TRUE, result_data, None,
                                            calculate_confidence(result_data))
            /\ cpc' = "done"
            /\ phases' = Append(phases, "done")
            /\ UNCHANGED c_exc
    /\ UNCHANGED <<cmax_pages, max_concurrent, cpage, coarse_log, roi_list, droi,
                   skip_page, tstate, tresp, tret, sem, finished, tile_log, all_results,
                   result_data, caught>>
    /\ UNCHANGED notClaudeVars

InitClaude == SelIdle /\ NormIdle /\ BoxIdle /\ ExtIdleBut("claude") /\ ClaudeInit

NextClaude ==
    \/ CoarsePage \/ CoarseDone \/ FullPage \/ DetailRoi \/ TileStart \/ TileFinish
    \/ Gather \/ DetailDone \/ Aggregate \/ Confidence

SpecClaude == InitClaude /\ [][NextClaude]_vars

InPhases(phase) == \E n \in 1..Len(phases) : phases[n] = phase

\* C15: whenever the coarse scan yields zero ROI the full-page fallback is run
\* and parse still returns success=true, whatever the full-page inference call
\* returns.
C15_ZeroRoiStillSucceeds ==
    (cpc \in {"done", "escaped"} /\ roi_list = <<>>) =>
        /\ cpc = "done"
        /\ InPhases("fullpage")
        /\ cresult.success

\* C17: during a detail pass at most max_concurrent tile inference calls are
\* in flight at every moment, for any number of ROIs and tiles.
C17_AtMostNInFlight == Cardinality(InFlight) <= max_concurrent

C17_Witness ==
    /\ cpc = "batch" /\ droi = 2 /\ max_concurrent = 1
    /\ Cardinality(InFlight) = 1
    /\ \E t \in 1..Len(tstate) : tstate[t] = "wait"

\* the tile's answer without the metadata key added by the tile task
TilePayload(ret) == [ret EXCEPT !.k = @ \ {"_tile_meta"}]

\* the payloads of the tiles whose inference call returned text that parses
\* to a JSON object, in tile order
SucceededPayloads(log) ==
    LET ok == SelectSeq(log, LAMBDA resp : resp.r = "json" /\ resp.j.t = "dict")
    IN  [n \in 1..Len(ok) |-> ok[n].j]

\* C18: when aggregation starts every tile task has been awaited, and the
\* input to aggregation is exactly the payloads of the tiles that succeeded:
\* a tile whose call failed or whose response cannot be parsed contributes
\* nothing and aborts nothing.
C18_AggregationInput ==
    cpc = "aggregate" =>
        /\ \A t \in 1..Len(tstate) : tstate[t] = "done"
        /\ [n \in 1..Len(all_results) |-> TilePayload(all_results[n])]
              = SucceededPayloads(tile_log)

\* C19 as stated: any exception raised in any phase of parse makes parse
\* return success=false with error set, and none escapes.
C19_AnyExceptionFailsParse_Original ==
    cpc \in {"done", "escaped"} =>
        /\ cpc = "done"
        /\ (caught # {} \/ c_exc # "none") =>
              (~cresult.success /\ cresult.error.t # "none")

\* C19: an exception that leaves a phase and reaches the body of parse (from
\* aggregation or the confidence calculation) is converted into a ParseResult
\* with success=false and error set, parse succeeds when none does, and no
\* exception ever escapes parse.
C19_UncaughtExceptionFailsParse ==
    /\ cpc # "escaped"
    /\ cpc = "done" =>
          /\ c_exc # "none" => (~cresult.success /\ cresult.error.t # "none")
          /\ c_exc = "none" => (cresult.success /\ cresult.error.t = "none")

C19_Witness ==
    /\ cpc = "done" /\ c_exc = "AttributeError" /\ InPhases("aggregate")
    /\ ~cresult.success /\ cresult.error = ErrorText("AttributeError")

\* the phases a call went through, without the mark of a successful return
PhasesRun == SelectSeq(phases, LAMBDA ph : ph # "done")

IsPrefix(s, t) == Len(s) <= Len(t) /\ s = SubSeq(t, 1, Len(s))

\* C22: each parse call follows COARSE_SCAN -> DETAIL_PASS -> AGGREGATE -> DONE
\* when the coarse scan found at least one ROI and COARSE_SCAN ->
\* FULL_PAGE_FALLBACK -> DONE when it found none: the coarse scan runs first,
\* exactly one of the two branches runs, aggregation runs only on the detail
\* branch, and the detail pass and the full-page fallback never both run.
C22_PhaseOrder ==
    /\ cpc # "off" => phases[1] = "coarse"
    /\ \/ IsPrefix(phases, <<"coarse", "detail", "aggregate", "done">>)
       \/ IsPrefix(phases, <<"coarse", "fullpage", "done">>)
    /\ InPhases("detail") => roi_list # <<>>
    /\ InPhases("fullpage") => roi_list = <<>>
    /\ cpc = "done" =>
          PhasesRun = IF roi_list # <<>> THEN <<"coarse", "detail", "aggregate">>
                                        ELSE <<"coarse", "fullpage">>

C22_Witness ==
    /\ cpc = "done" /\ Len(roi_list) = 2
    /\ phases = <<"coarse", "detail", "aggregate", "done">>

\* C25: in the detail pass all tiles of the document, across every ROI and
\* page, are submitted as one batch under one semaphore: all tile tasks are
\* launched together before any of them is awaited, so while the tile tasks
\* of one ROI run, no tile task of another ROI has already been awaited.
C25_OneBatch == cpc = "batch" => tile_log = <<>>

\* every inference call of the parse raised: each coarse-scan page and the
\* full-page fallback call
AllCallsRaised ==
    /\ \A n \in 1..Len(coarse_log) : coarse_log[n].outcome = "raise"
    /\ "fullpage" \in caught

\* C28: if every inference call made by ClaudeTilingStrategy raises, parse
\* still returns success=true with empty data and confidence 0; in
\* parse_with_fallback that result is returned, so the strategies after the
\* Claude strategy in the chain are never invoked.
C28_ServiceDownStillSucceeds ==
    (cpc = "done" /\ AllCallsRaised) =>
        /\ cresult.success
        /\ cresult.data = EmptyDict
        /\ cresult.confidence_score = RatZero
        /\ ~selector_moves_on(cresult)

C28_Witness ==
    /\ cpc = "done" /\ AllCallsRaised /\ Len(coarse_log) = 2
    /\ cresult.success

\* what the tile tasks return for the answers log, filtered as after gather
ExpectedResults(log) ==
    valid_results([n \in 1..Len(log) |-> process_tile_with_claude(log[n])])

\* C27: for a fixed list of tiles and fixed per-tile responses the result of
\* the concurrent batch, and of the aggregation built from it, is the same for
\* every order in which the in-flight calls complete: payloads are collected
\* in tile submission order.
C27_OrderIndependent ==
    /\ (cpc = "batch" /\ \A t \in 1..Len(tstate) : tstate[t] = "done") =>
          valid_results(gather(tret, finished)) = ExpectedResults(tresp)
    /\ all_results = ExpectedResults(tile_log)
    /\ (cpc \in {"confidence", "done"} /\ InPhases("aggregate") /\ c_exc = "none") =>
          result_data = aggregate_results(ExpectedResults(tile_log))

\* two tiles with different payloads completed in reverse order
C27_Witness ==
    /\ cpc = "batch" /\ finished = <<2, 1>>
    /\ tresp[1] = Json(GoodPayload) /\ tresp[2] = Json(EmptyDict)

(***************************************************************************)
(* _coarse_scan on its own, for max_pages below and above the page cap     *)
(***************************************************************************)
MaxScanPagesArg == 7

CoarseScanInit ==
    /\ cpc = "coarse"
    /\ cmax_pages \in 0..MaxScanPagesArg
    /\ max_concurrent = 1
    /\ cpage = 1
    /\ coarse_log = <<>> /\ roi_list = <<>> /\ phases = <<"coarse">> /\ droi = 0
    /\ skip_page = 0 /\ tstate = <<>> /\ tresp = <<>> /\ tret = <<>> /\ sem = 0
    /\ finished = <<>>
    /\ tile_log = <<>> /\ all_results = <<>> /\ result_data = None
    /\ cresult = NoResult /\ caught = {} /\ c_exc = "none"

InitCoarseScan ==
    SelIdle /\ NormIdle /\ BoxIdle /\ ExtIdleBut("claude") /\ CoarseScanInit

NextCoarseScan == CoarsePage \/ CoarseDone

SpecCoarseScan == InitCoarseScan /\ [][NextCoarseScan]_vars

\* the ROI of the pages that answered with a region, in scan order
RoiOfLog(log) ==
    LET found == SelectSeq(log, LAMBDA e : e.outcome = "one_region")
    IN  [n \in 1..Len(found) |-> [page_number |-> found[n].page]]

\* C24: the coarse scan examines pages 1..min(max_pages, 5) in ascending
\* order, each at most once, and a failure on a page (render error, inference
\* error, unparseable response) is skipped without aborting the scan: the ROI
\* collected from earlier pages are kept and all later pages are scanned.
C24_CoarseScanPages ==
    /\ \A n \in 1..Len(coarse_log) : coarse_log[n].page = n
    /\ Len(coarse_log) <= 5 /\ Len(coarse_log) <= cmax_pages
    /\ cpc \notin {"off", "coarse"} =>
          Len(coarse_log) = IF cmax_pages < 5 THEN cmax_pages ELSE 5
    /\ roi_list = RoiOfLog(coarse_log)

C24_Witness ==
    /\ cpc = "detail" /\ cmax_pages = 7 /\ Len(coarse_log) = 5
    /\ coarse_log[1].outcome = "one_region" /\ coarse_log[2].outcome = "raise"
    /\ coarse_log[3].outcome = "unparseable" /\ coarse_log[4].outcome = "one_region"
    /\ Len(roi_list) = 2

(***************************************************************************)
(* PDFAnalyzer.analyze (utils/pdf_analyzer.py) and its call site in        *)
(* StrategySelector.parse_with_fallback                                    *)
(***************************************************************************)
\* what pdf_path can point at: nothing, a file that cannot be opened, a file
\* that is not a PDF, a PDF
FileKinds == {"missing", "unreadable", "corrupt", "valid"}

\* pdf_path.stat() raises FileNotFoundError when nothing is there
stat_raises(file) == file = "missing"

\* the introspection libraries can read this file
Readable(file) == file = "valid"

\* DocumentMetrics(file_path, file_size_mb, page_count, average_dpi, is_scanned)
DocumentMetrics(file_size_mb, page_count, average_dpi, is_scanned) ==
    [file_size_mb |-> file_size_mb, page_count |-> page_count,
     average_dpi |-> average_dpi, is_scanned |-> is_scanned,
     complexity_score |->
        calculate_complexity([file_size_mb |-> file_size_mb, page_count |-> page_count,
                              average_dpi |-> average_dpi, is_scanned |-> is_scanned])]

AnInit ==
    /\ apc = "stat"
    /\ afile \in FileKinds
    /\ a_size = 0 /\ a_pages = 0 /\ a_dpi = None /\ a_scanned = FALSE
    /\ a_failed = {} /\ a_metrics = None /\ a_exc = "none" /\ propagated = FALSE

\* file_size_mb = pdf_path.stat().st_size / (1024 * 1024), outside any try
Stat ==
    /\ apc = "stat"
    /\ IF stat_raises(afile)
       THEN apc' = "raised" /\ a_exc' = "FileNotFoundError" /\ a_size' = a_size
       ELSE apc' = "pages" /\ a_exc' = a_exc /\ a_size' \in FileSizesMb
    /\ UNCHANGED <<afile, a_pages, a_dpi, a_scanned, a_failed, a_metrics, propagated>>
    /\ UNCHANGED notAnVars

\* _get_page_count: the count, or 1 when anything raises
GetPageCount ==
    /\ apc = "pages"
    /\ \/ /\ Readable(afile)
          /\ a_pages' \in PageCounts
          /\ a_failed' = a_failed
       \/ /\ a_pages' = 1
          /\ a_failed' = a_failed \cup {"page_count"}
    /\ apc' = "dpi"
    /\ UNCHANGED <<afile, a_size, a_dpi, a_scanned, a_metrics, a_exc, propagated>>
    /\ UNCHANGED notAnVars

\* _estimate_dpi: the estimate, or None when anything raises
EstimateDpi ==
    /\ apc = "dpi"
    /\ \/ /\ Readable(afile)
          /\ a_dpi' \in DpiValues
          /\ a_failed' = a_failed
       \/ /\ a_dpi' = None
          /\ a_failed' = a_failed \cup {"average_dpi"}
    /\ apc' = "scanned"
    /\ UNCHANGED <<afile, a_size, a_pages, a_scanned, a_metrics, a_exc, propagated>>
    /\ UNCHANGED notAnVars

\* _is_scanned_document: the verdict, or False when anything raises
IsScanned ==
    /\ apc = "scanned"
    /\ \/ /\ Readable(afile)
          /\ a_scanned' \in BOOLEAN
          /\ a_failed' = a_failed
       \/ /\ a_scanned' = FALSE
          /\ a_failed' = a_failed \cup {"is_scanned"}
    /\ apc' = "construct"
    /\ UNCHANGED <<afile, a_size, a_pages, a_dpi, a_metrics, a_exc, propagated>>
    /\ UNCHANGED notAnVars

\* metrics = DocumentMetrics(...); return metrics
ReturnMetrics ==
    /\ apc = "construct"
    /\ a_metrics' = DocumentMetrics(a_size, a_pages, a_dpi, a_scanned)
    /\ apc' = "returned"
    /\ UNCHANGED <<afile, a_size, a_pages, a_dpi, a_scanned, a_failed, a_exc, propagated>>
    /\ UNCHANGED notAnVars

\* "metrics = self.analyzer.analyze(pdf_path)" in parse_with_fallback is not
\* inside a try: an exception of analyze leaves parse_with_fallback
SelectorReceives ==
    /\ apc \in {"returned", "raised"}
    /\ propagated' = (apc = "raised")
    /\ apc' = "selector"
    /\ UNCHANGED <<afile, a_size, a_pages, a_dpi, a_scanned, a_failed, a_metrics, a_exc>>
    /\ UNCHANGED notAnVars

InitAnalyzer == SelIdle /\ NormIdle /\ BoxIdle /\ ExtIdleBut("analyzer") /\ AnInit

NextAnalyzer ==
    \/ Stat \/ GetPageCount \/ EstimateDpi \/ IsScanned \/ ReturnMetrics
    \/ SelectorReceives

SpecAnalyzer == InitAnalyzer /\ [][NextAnalyzer]_vars

\* C20: analyze never raises: for every path, a missing or unreadable file
\* included, each introspection step degrades to its default (page_count 1,
\* average_dpi unknown, is_scanned false), a DocumentMetrics is returned and
\* parse_with_fallback never propagates an analyzer exception.
C20_AnalyzeNeverRaises ==
    /\ apc # "raised"
    /\ apc = "selector" =>
          /\ ~propagated
          /\ a_exc = "none"
          /\ a_metrics # None
          /\ "page_count" \in a_failed => a_metrics.page_count = 1
          /\ "average_dpi" \in a_failed => a_metrics.average_dpi = None
          /\ "is_scanned" \in a_failed => ~a_metrics.is_scanned

(***************************************************************************)
(* One unit of model output.  The text of one inference call (a page of    *)
(* the coarse scan, a tile, the full-page fallback call, the single-shot   *)
(* call of OpenAINativeStrategy) is followed through the strategy's parse  *)
(* and through parse_with_fallback; the other inference calls of the same  *)
(* parse answer with well-formed JSON.                                     *)
(***************************************************************************)
\* OpenAINativeStrategy._parse_json_response: any fenced block is tried
openai_parse_json_response(resp) ==
    IF resp.r \in {"json", "fenced"} THEN resp.j ELSE None

\* str(e) of ValueError("Failed to parse JSON from response")
ParseJsonFailed == Str(<<"F">>)

\* the tail of both parse methods: confidence, then the ParseResult; an
\* exception of _calculate_confidence lands in "except Exception"
result_of(data) ==
    IF confidence_raises(data)
    THEN ClaudeParseResult(FALSE, None, ErrorText(ConfidenceException(data)), RatZero)
    ELSE ClaudeParseResult(TRUE, data, None, calculate_confidence(data))

\* OpenAINativeStrategy.parse for the response text resp
openai_parse(resp) ==
    LET parsed_data == openai_parse_json_response(resp)
    IN  IF ~Truthy(parsed_data)
        THEN ClaudeParseResult(FALSE, None, ParseJsonFailed, RatZero)
        ELSE result_of(parsed_data)

\* a coarse-scan answer naming regions; the region list is kept abstract
RegionsPayload == [t |-> "dict", k |-> {"regions"}, v |-> [key \in TopKeys |-> None]]

\* the page of _coarse_scan adds ROI: roi_data and "regions" in roi_data
coarse_page_finds_roi(resp) ==
    LET roi_data == parse_json_response(resp)
    IN  Truthy(roi_data) /\ roi_data.t = "dict" /\ "regions" \in roi_data.k

\* _detail_pass over one ROI cut into one tile whose call answers resp
detail_pass_one_tile(resp) ==
    LET tile_results == valid_results(<<process_tile_with_claude(resp)>>)
    IN  IF aggregate_raises(tile_results)
        THEN ClaudeParseResult(FALSE, None, ErrorText("AttributeError"), RatZero)
        ELSE result_of(aggregate_results(tile_results))

\* the texts a model can answer with
ModelTexts ==
    {Unparseable, Json(GoodPayload), Json(EmptyDict), Json(RegionsPayload),
     Json(JsonArray), Json(List(<<>>)), Json(Num(5)), Json(None),
     Json(Str(<<"a">>)), Fenced("json", GoodPayload), Fenced("", GoodPayload),
     Fenced("json", JsonArray)}

OutputUnits == {"coarse_page", "tile", "full_page", "single_shot"}

\* the text is one JSON object, directly or in a fenced block
OneJsonObject(resp) == resp.r \in {"json", "fenced"} /\ resp.j.t = "dict"

OutInit ==
    /\ opc = "call" /\ ounit \in OutputUnits /\ otext \in ModelTexts
    /\ oresult = NoResult /\ ofinal = FALSE

\* ClaudeTilingStrategy.parse of a one-page document whose coarse-scan call
\* answers otext; the call after it answers GoodPayload
UnitCoarsePage ==
    /\ opc = "call" /\ ounit = "coarse_page"
    /\ oresult' = IF coarse_page_finds_roi(otext)
                  THEN detail_pass_one_tile(Json(GoodPayload))
                  ELSE result_of(parse_full_pages(Json(GoodPayload)))
    /\ opc' = "returned"
    /\ UNCHANGED <<ounit, otext, ofinal>>
    /\ UNCHANGED notOutVars

\* ClaudeTilingStrategy.parse with one ROI and one tile whose call answers otext
UnitTile ==
    /\ opc = "call" /\ ounit = "tile"
    /\ oresult' = detail_pass_one_tile(otext)
    /\ opc' = "returned"
    /\ UNCHANGED <<ounit, otext, ofinal>>
    /\ UNCHANGED notOutVars

\* ClaudeTilingStrategy.parse without ROI: the full-page call answers otext
UnitFullPage ==
    /\ opc = "call" /\ ounit = "full_page"
    /\ oresult' = result_of(parse_full_pages(otext))
    /\ opc' = "returned"
    /\ UNCHANGED <<ounit, otext, ofinal>>
    /\ UNCHANGED notOutVars

\* OpenAINativeStrategy.parse: the single call answers otext
UnitSingleShot ==
    /\ opc = "call" /\ ounit = "single_shot"
    /\ oresult' = openai_parse(otext)
    /\ opc' = "returned"
    /\ UNCHANGED <<ounit, otext, ofinal>>
    /\ UNCHANGED notOutVars

\* parse_with_fallback whose chain holds this strategy only: a success is
\* normalized and returned, a failure or an exception of the normalizer ends
\* in "All parsing strategies failed"
SoleStrategyReturns ==
    /\ opc = "returned"
    /\ ofinal' = ~selector_moves_on(oresult)
    /\ opc' = "selected"
    /\ UNCHANGED <<ounit, otext, oresult>>
    /\ UNCHANGED notOutVars

InitOutput == SelIdle /\ NormIdle /\ BoxIdle /\ ExtIdleBut("output") /\ OutInit

NextOutput ==
    \/ UnitCoarsePage \/ UnitTile \/ UnitFullPage \/ UnitSingleShot
    \/ SoleStrategyReturns

SpecOutput == InitOutput /\ [][NextOutput]_vars

\* C21: model output that is not one JSON object (directly or in a fenced
\* block) counts as "no data from this unit" for a coarse-scan page, a tile,
\* the full-page fallback call and the single-shot call alike: by itself it
\* never makes the strategy's parse fail nor parse_with_fallback return
\* success=false.
C21_MalformedNeverFatal ==
    (opc # "call" /\ ~OneJsonObject(otext)) =>
        /\ oresult.success
        /\ opc = "selected" => ofinal

(***************************************************************************)
(* ImageProcessor.calculate_tile_size.  The method computes in floating    *)
(* point: bytes_per_pixel = 0.7 and the 20% margin make max_pixels =        *)
(* target * 8 / 7.  A product x * (a / b) whose exact value is an integer   *)
(* n can come out just below n when a / b has no exact binary              *)
(* representation, and int() then yields n - 1: both outcomes are kept.     *)
(***************************************************************************)
max_tile_dimension == 2000

min_dimension == 500

\* int(math.sqrt(n)) for the integer part n of the argument
ISqrt(n) ==
    LET RECURSIVE Bisect(_, _)
        Bisect(lo, hi) ==
            IF lo >= hi THEN lo
            ELSE LET mid == (lo + hi + 1) \div 2
                 IN  IF mid * mid <= n THEN Bisect(mid, hi) ELSE Bisect(lo, mid - 1)
    IN  Bisect(0, 46340)

RECURSIVE IsPowerOfTwo(_)
IsPowerOfTwo(d) == d = 1 \/ (d % 2 = 0 /\ IsPowerOfTwo(d \div 2))

\* int(x * (a / b)) for integers x >= 0, a >= 0, b > 0: the outcomes possible
TruncScaled(x, a, b) ==
    LET q == (x * a) \div b
    IN  IF (x * a) % b = 0 /\ q > 0 /\ ~IsPowerOfTwo(b \div Gcd(a, b))
        THEN {q - 1, q} ELSE {q}

TileDims(w, h) == [exc |-> "none", w |-> w, h |-> h]

DivisionByZero == [exc |-> "ZeroDivisionError", w |-> 0, h |-> 0]

\* "Cap maximum tile dimensions"
cap_maximum(tw, th) ==
    IF tw > max_tile_dimension \/ th > max_tile_dimension
    THEN LET d == IF tw > th THEN tw ELSE th
         IN  {<<a, b>> : a \in TruncScaled(tw, max_tile_dimension, d),
                         b \in TruncScaled(th, max_tile_dimension, d)}
    ELSE {<<tw, th>>}

\* "Ensure reasonable minimum size"; min_dimension / 0 raises
ensure_minimum(tw, th) ==
    IF tw < min_dimension \/ th < min_dimension
    THEN IF tw = 0 \/ th = 0 THEN {DivisionByZero}
         ELSE LET m == Min(tw, th)
              IN  {TileDims(a, b) : a \in TruncScaled(tw, min_dimension, m),
                                    b \in TruncScaled(th, min_dimension, m)}
    ELSE {TileDims(tw, th)}

\* calculate_tile_size(image_width, image_height, target_size_bytes): the set
\* of its possible outcomes
calculate_tile_size(w, h, target) ==
    IF w = 0 \/ h = 0 THEN {DivisionByZero}
    ELSE LET g  == Gcd(w, h)
             w1 == w \div g
             h1 == h \div g
             tile_height == ISqrt((target * 8 * h1) \div (7 * w1))
         IN  UNION {UNION {ensure_minimum(c[1], c[2]) : c \in cap_maximum(tile_width, tile_height)} :
                       tile_width \in TruncScaled(tile_height, w1, h1)}

\* sides of the ROI or page to be tiled, in pixels
SideLengths == {0, 300, 500, 1000, 2000, 3000}

\* byte budgets: none, tiny, the coarse-scan budget, the default, a large one
ByteBudgets == {0, 1000, 2097152, 4718592, 10000000}

SizeInit ==
    /\ zpc = "call"
    /\ image_width \in SideLengths /\ image_height \in SideLengths
    /\ target_size_bytes \in ByteBudgets
    /\ tile_dims = NoResult

CalculateTileSize ==
    /\ zpc = "call"
    /\ tile_dims' \in calculate_tile_size(image_width, image_height, target_size_bytes)
    /\ zpc' = "returned"
    /\ UNCHANGED <<image_width, image_height, target_size_bytes>>
    /\ UNCHANGED notSizeVars

InitTileSize == SelIdle /\ NormIdle /\ BoxIdle /\ ExtIdleBut("tilesize") /\ SizeInit

NextTileSize == CalculateTileSize

SpecTileSize == InitTileSize /\ [][NextTileSize]_vars

InBounds(v) == min_dimension <= v /\ v <= max_tile_dimension

Abs(v) == IF v < 0 THEN -v ELSE v

\* one of the returned sides is within three pixels of the side proportional
\* to the other one
AspectPreserved(tw, th, w, h) == Abs(tw * h - th * w) <= 3 * Max(w, h)

\* C26: calculate_tile_size respects both bounds for every input width,
\* height and byte budget: neither returned dimension exceeds 2000 px, neither
\* is below 500 px, and the input aspect ratio is preserved.
C26_TileSizeBounds ==
    zpc = "returned" =>
        /\ tile_dims.exc = "none"
        /\ InBounds(tile_dims.w) /\ InBounds(tile_dims.h)
        /\ AspectPreserved(tile_dims.w, tile_dims.h, image_width, image_height)

\* ---------------------------------------------------------------------------
\* PlanParser.parse_plan_with_claude (legacy single-request path)
\* ---------------------------------------------------------------------------

\* max_retries = 3
max_retries == 3

\* range(1, min(max_pages + 1, 6)): at most five pages are converted
PLAN_PAGE_CAP == 5

\* len(range(1, min(max_pages + 1, 6)))
PagesTried(max_pages) == Max(0, Min(max_pages, PLAN_PAGE_CAP))

\* an exception: type(e).__name__ and str(e), the message as its words
Exc(type, msg) == [type |-> type, msg |-> msg]

\* word in msg
Mentions(msg, word) == \E i \in 1..Len(msg) : msg[i] = word

\* str.lower(), one word
LowerWord(word) ==
    CASE word = "Connection" -> "connection"
      [] word = "CONNECTION" -> "connection"
      [] word = "Authentication" -> "authentication"
      [] word = "Timeout" -> "timeout"
      [] word = "Rate" -> "rate"
      [] OTHER -> word

\* error_msg.lower()
LowerMsg(msg) == [i \in 1..Len(msg) |-> LowerWord(msg[i])]

\* "Connection" in error_msg or "connection" in error_msg
is_connection_error(msg) == Mentions(msg, "Connection") \/ Mentions(msg, "connection")

\* the exception raised once the last attempt failed with a connection error
ConnectFailed ==
    Exc("Exception",
        <<"Failed", "to", "connect", "to", "Claude", "API", "after", "3",
          "attempts", "Check", "your", "internet", "connection">>)

RetryDecision_RetryAll(msg, count) ==
    IF count < max_retries THEN "sleep"
    ELSE IF is_connection_error(msg) THEN "connect_failed" ELSE "reraise"

\* what the handler of a failed attempt does, count being retry_count after
\* its increment: sleep two seconds and loop, raise ConnectFailed, or re-raise
RetryDecision(msg, count) ==
    IF is_connection_error(msg)
    THEN IF count < max_retries THEN "sleep" ELSE "connect_failed"
    ELSE "reraise"

\* the user-friendly message of the outer handler
user_error(msg) ==
    IF is_connection_error(msg)
    THEN <<"Network connection error">>
    ELSE IF Mentions(LowerMsg(msg), "authentication") \/ Mentions(LowerMsg(msg), "api key")
    THEN <<"API authentication failed">>
    ELSE IF Mentions(LowerMsg(msg), "timeout")
    THEN <<"Request timed out">>
    ELSE IF Mentions(LowerMsg(msg), "rate")
    THEN <<"API rate limit exceeded">>
    ELSE <<"Claude API error:">> \o msg

\* except Exception as e: return {"success": False, ...}
outer_handler(e) ==
    [success |-> FALSE, error |-> user_error(e.msg), technical_error |-> e]

\* if not self.anthropic: return {...}
NotConfigured == [success |-> FALSE, error |-> <<"Claude API not configured">>]

\* if not images: return {...}
NoImages == [success |-> FALSE, error |-> <<"Failed to convert PDF pages to images">>]

\* message.content is empty
EmptyContent == [r |-> "empty"]

\* a ```json block whose content is not JSON
BadFence == [r |-> "badfence"]

NoException == Exc("none", <<>>)

\* json.loads(response_text), then the ```json block: the parsed value, or the
\* exception that leaves the block
plan_parse_json(resp) ==
    CASE resp.r = "empty" -> [exc |-> Exc("IndexError", <<"list", "index", "out", "of", "range">>)]
      [] resp.r = "json" -> [exc |-> NoException, data |-> resp.j]
      [] resp.r = "fenced" /\ resp.tag = "json" -> [exc |-> NoException, data |-> resp.j]
      [] resp.r = "badfence" -> [exc |-> Exc("JSONDecodeError", <<"Expecting", "value">>)]
      [] OTHER -> [exc |-> Exc("ValueError", <<"Could", "not", "parse", "JSON", "from", "response">>)]

NoGet == Exc("AttributeError", <<"object", "has", "no", "attribute", "get">>)

NoLen == Exc("TypeError", <<"object", "has", "no", "len">>)

NotSubscriptable == Exc("TypeError", <<"object", "is", "not", "subscriptable">>)

\* item.get(key, 'N/A')[:50] of one logged entry
log_entry_exception(item, key) ==
    IF item.t # "dict" THEN NoGet
    ELSE IF GetOr(item, key, Str(<<"N/A">>)).t \in {"none", "num", "dict"}
    THEN NotSubscriptable
    ELSE NoException

\* len(entries) and the loop over entries[:5] (a dict cannot be sliced)
log_entries_exception(entries, key) ==
    CASE entries.t \in {"none", "num"} -> NoLen
      [] entries.t = "dict" -> NotSubscriptable
      [] entries.t = "str" -> IF entries.s = <<>> THEN NoException ELSE NoGet
      [] OTHER ->
           LET bad == {i \in 1..Min(5, Len(entries.l)) :
                          log_entry_exception(entries.l[i], key) # NoException}
           IN  IF bad = {} THEN NoException
               ELSE log_entry_exception(
                        entries.l[CHOOSE i \in bad : \A j \in bad : i <= j], key)

\* the logging of the extraction results: the exception it raises, if any
plan_log_exception(parsed) ==
    IF parsed.t # "dict" THEN NoGet
    ELSE LET bid_items == GetOr(parsed, "bid_items", List(<<>>))
             materials == GetOr(parsed, "materials", List(<<>>))
             specs     == GetOr(parsed, "specifications", List(<<>>))
         IN  IF log_entries_exception(bid_items, "description") # NoException
             THEN log_entries_exception(bid_items, "description")
             ELSE IF log_entries_exception(materials, "name") # NoException
             THEN log_entries_exception(materials, "name")
             ELSE IF specs.t \in {"none", "num"} THEN NoLen
             ELSE NoException

\* everything after the retry loop: the dictionary the call returns
plan_after_loop(resp, pages) ==
    LET parsed == plan_parse_json(resp)
    IN  IF parsed.exc # NoException THEN outer_handler(parsed.exc)
        ELSE IF plan_log_exception(parsed.data) # NoException
        THEN outer_handler(plan_log_exception(parsed.data))
        ELSE [success |-> TRUE, data |-> parsed.data, pages_analyzed |-> pages]

\* exceptions messages.create raises
ApiErrors ==
    {Exc("APIConnectionError", <<"Connection", "error">>),
     Exc("ConnectError", <<"All", "connection", "attempts", "failed">>),
     Exc("APITimeoutError", <<"Request", "timed", "out">>),
     Exc("AuthenticationError", <<"invalid", "api key">>),
     Exc("RateLimitError", <<"Rate", "limit", "exceeded">>),
     Exc("InternalServerError", <<"Overloaded">>)}

\* texts messages.create answers with
PlanTexts ==
    {EmptyContent, BadFence, Unparseable, Json(GoodPayload), Json(EmptyDict),
     Json(NullItemsPayload), Json(StrItemsPayload), Json(JsonArray),
     Fenced("json", GoodPayload), Fenced("", GoodPayload)}

MaxPlanPages == 6

PlanInit ==
    /\ ppc = "call" /\ anthropic \in BOOLEAN /\ plan_max_pages \in 0..MaxPlanPages
    /\ n_images = 0 /\ retry_count = 0 /\ api_calls = <<>>
    /\ message = NoResult /\ plan_result = NoResult

\* entry of the call up to the retry loop: the configuration check and the
\* conversion of the pages, each page yielding an image or None
ConvertPages ==
    /\ ppc = "call"
    /\ IF ~anthropic
       THEN /\ plan_result' = NotConfigured /\ ppc' = "returned"
            /\ UNCHANGED n_images
       ELSE \E n \in 0..PagesTried(plan_max_pages) :
                /\ n_images' = n
                /\ IF n = 0
                   THEN plan_result' = NoImages /\ ppc' = "returned"
                   ELSE plan_result' = plan_result /\ ppc' = "loop"
    /\ UNCHANGED <<anthropic, plan_max_pages, retry_count, api_calls, message>>
    /\ UNCHANGED notPlanVars

\* one pass of "while retry_count < max_retries": messages.create answers and
\* the loop breaks
AttemptSucceeds ==
    /\ ppc = "loop" /\ retry_count < max_retries
    /\ \E text \in PlanTexts :
           /\ message' = text
           /\ api_calls' = Append(api_calls, NoException)
    /\ ppc' = "respond"
    /\ UNCHANGED <<anthropic, plan_max_pages, n_images, retry_count, plan_result>>
    /\ UNCHANGED notPlanVars

\* one pass of the loop in which messages.create raises
AttemptFails ==
    /\ ppc = "loop" /\ retry_count < max_retries
    /\ \E e \in ApiErrors :
           /\ api_calls' = Append(api_calls, e)
           /\ retry_count' = retry_count + 1
           /\ LET decision == RetryDecision(e.msg, retry_count + 1)
              IN  CASE decision = "sleep" ->
                         ppc' = "loop" /\ plan_result' = plan_result
                    [] decision = "connect_failed" ->
                         ppc' = "returned" /\ plan_result' = outer_handler(ConnectFailed)
                    [] OTHER ->
                         ppc' = "returned" /\ plan_result' = outer_handler(e)
    /\ UNCHANGED <<anthropic, plan_max_pages, n_images, message>>
    /\ UNCHANGED notPlanVars

\* the code after the loop, up to the return
ProcessResponse ==
    /\ ppc = "respond"
    /\ plan_result' = plan_after_loop(message, n_images)
    /\ ppc' = "returned"
    /\ UNCHANGED <<anthropic, plan_max_pages, n_images, retry_count, api_calls, message>>
    /\ UNCHANGED notPlanVars

InitPlan == SelIdle /\ NormIdle /\ BoxIdle /\ ExtIdleBut("plan") /\ PlanInit

NextPlan == ConvertPages \/ AttemptSucceeds \/ AttemptFails \/ ProcessResponse

\* the call is not suspended for ever: every request carries timeout=120.0
SpecPlan == InitPlan /\ [][NextPlan]_vars /\ WF_vars(NextPlan)

\* the i-th messages.create call raised
CallFailed(i) == api_calls[i] # NoException

\* the i-th messages.create call raised a connection error
ConnectionFailure(i) == CallFailed(i) /\ is_connection_error(api_calls[i].msg)

\* a {success: false, error} dictionary
FailureDict(d) ==
    /\ "success" \in DOMAIN d /\ d.success = FALSE
    /\ "error" \in DOMAIN d /\ d.error # <<>>

C30_Attempts ==
    /\ Len(api_calls) <= 3
    /\ \A i \in 1..Len(api_calls) - 1 : ConnectionFailure(i)
    /\ ppc = "loop" => Len(api_calls) < 3
    /\ ppc = "returned" /\ api_calls # <<>> /\ ConnectionFailure(Len(api_calls))
           => Len(api_calls) = 3
    /\ ppc = "returned" =>
           /\ "success" \in DOMAIN plan_result
           /\ ~plan_result.success => FailureDict(plan_result)
           /\ api_calls # <<>> /\ CallFailed(Len(api_calls)) => FailureDict(plan_result)

\* C30: parse_plan_with_claude makes at most 3 messages.create calls; a call
\* is followed by another one only if it failed with a connection error, and
\* a connection error is followed by another call until 3 calls have failed;
\* any other error ends the attempts; the call always returns, and what it
\* returns after a failure is a dictionary with success false and an error.
C30_RetryLoop == []C30_Attempts /\ <>(ppc = "returned")

C30_Witness ==
    /\ ppc = "returned" /\ Len(api_calls) = 3
    /\ \A i \in 1..3 : ConnectionFailure(i)
    /\ plan_result = outer_handler(ConnectFailed)
    /\ plan_result.error = <<"Network connection error">>

====
